---- MODULE Spec2Model ----
(***************************************************************************)
(* The stream enrichment and caching pipeline of uha-backend:              *)
(*   services/cache_service.py   StreamCacheService (the stream_cache      *)
(*                               table, get / put / sweep)                 *)
(*   api/llm.py                  get_stream_details, get_paginated_streams *)
(*   services/stream_service.py  StreamService.process_streams_batch       *)
(*                                                                         *)
(* Every coroutine is cut at its awaits: one action per stretch of code    *)
(* that runs without yielding to the event loop.  The wall clock is        *)
(* counted in whole hours.                                                 *)
(***************************************************************************)
EXTENDS Integers, Sequences, FiniteSets, TLC

(***************************************************************************)
(* Bounds of the model.                                                    *)
(***************************************************************************)
MaxTicks == 2
MaxEntries == 3
MaxLimit == 2
MaxPage == 6
MaxRows == 2
MaxTextLen == 4
MaxTitleLen == 2
MaxComments == 2
MaxTokens == 4
MaxHighlightComments == 4
MaxFeedEntries == 4
MaxPerPage == 3

(***************************************************************************)
(* Program constants.                                                      *)
(***************************************************************************)
\* cache_service.py:18   self.cache_duration_hours = 24
CACHE_DURATION_HOURS == 24
\* windows of six entries
BatchSizePlusOne == 5 + 1
\* llm.py:683-684  range(0, len(paginated_entries), 5), paginated_entries[i : i + 5]
BATCH_SIZE == 5
\* llm.py:195-197 and youtube_analysis.py:64-66  ([a-zA-Z0-9_-]{11})
VIDEO_ID_LENGTH == 11

(***************************************************************************)
(* Optional values.  Python's None is the empty tuple and a present value  *)
(* x is the one-element tuple <<x>>, so that an unset list (None) and an   *)
(* empty list (<<  <<>>  >>) stay different values.                        *)
(***************************************************************************)
None == <<>>
Some(x) == <<x>>
IsNone(o) == Len(o) = 0
Val(o) == o[1]

\* two coroutines run concurrently
Procs == {1, 2}
Vids == {"vA", "vB"}

VARIABLES
    now,        \* datetime.utcnow(), in hours
    ticks,      \* how many times the clock has advanced
    db,         \* the committed rows of table stream_cache
    lastPut,    \* history: per video_id, the record of the last committed put
    pc,         \* per coroutine, the await it is suspended at
    loc,        \* per coroutine, its local variables
    swp,        \* the coroutine of clear_expired_cache
    apiKey,     \* bool(settings.youtube_api_key)
    entries,    \* get_paginated_streams: paginated_entries
    bpc,        \* get_paginated_streams: where the handler is
    win,        \* get_paginated_streams: the loop index i
    results,    \* get_paginated_streams: streams_with_details
    limit,      \* StreamServiceConfig.max_concurrent_analysis
    permits,    \* process_streams_batch: the value of the semaphore
    streams,    \* process_streams_batch: the Stream of each task
    call,       \* the function or handler under call, with its arguments
    ret         \* what the call returned or raised

cacheVars == <<now, ticks, db, lastPut, swp>>
batchVars == <<apiKey, entries, bpc, win, results>>
semVars == <<limit, permits, streams>>
fnVars == <<call, ret>>
vars == <<now, ticks, db, lastPut, pc, loc, swp, apiKey, entries, bpc, win, results,
          limit, permits, streams, call, ret>>

(***************************************************************************)
(* StreamWithDetails (models/stream_models.py:15-34).                      *)
(***************************************************************************)
BareStream(date, url, video_id) ==
    [date |-> date, url |-> url, video_id |-> video_id,
     title |-> None, thumbnail |-> None, view_count |-> None,
     like_count |-> None, comment_count |-> None, duration |-> None,
     tags |-> None, keywords |-> None, ai_summary |-> None,
     highlights |-> None, sentiment |-> None, engagement_score |-> None,
     category |-> None]

(***************************************************************************)
(* json.dumps / json.loads of a list, and the truth value of a TEXT column *)
(* (NULL and the empty string are falsy; json.dumps never yields the empty *)
(* string, "[]" is a non-empty string).                                    *)
(***************************************************************************)
JsonDumps(list) == [json |-> list]
JsonLoads(text) == text.json
ColumnTruthy(col) == ~IsNone(col)

\* `stream.tags or []`: None and the empty list both become the empty list
OrEmptyList(o) == IF IsNone(o) \/ Val(o) = <<>> THEN <<>> ELSE Val(o)

\* A column declared with default=0 (models.py:26-28): the ORM leaves an
\* attribute that is None out of the INSERT, so the column default applies.
InsertDefault(o, dflt) == IF IsNone(o) THEN Some(dflt) ELSE o

(***************************************************************************)
(* cache_stream, the INSERT branch (cache_service.py:84-102) with the      *)
(* column defaults of StreamCache (models.py:13-46).                       *)
(***************************************************************************)
NewRow(stream, t) ==
    [video_id |-> stream.video_id,
     url |-> stream.url,
     date |-> stream.date,
     title |-> stream.title,
     thumbnail |-> stream.thumbnail,
     view_count |-> InsertDefault(stream.view_count, 0),
     like_count |-> InsertDefault(stream.like_count, 0),
     comment_count |-> InsertDefault(stream.comment_count, 0),
     duration |-> stream.duration,
     ai_summary |-> stream.ai_summary,
     highlights |-> Some(JsonDumps(OrEmptyList(stream.highlights))),
     sentiment |-> stream.sentiment,
     engagement_score |-> stream.engagement_score,
     category |-> stream.category,
     tags |-> Some(JsonDumps(OrEmptyList(stream.tags))),
     keywords |-> Some(JsonDumps(OrEmptyList(stream.keywords))),
     created_at |-> t,
     updated_at |-> t,
     last_accessed |-> t,
     cache_version |-> 1]

(***************************************************************************)
(* cache_stream, the UPDATE branch (cache_service.py:59-81): every data    *)
(* column is overwritten with the given value, None included.              *)
(***************************************************************************)
UpdatedRow(row, stream, t) ==
    [row EXCEPT
       !.url = stream.url,
       !.date = stream.date,
       !.title = stream.title,
       !.thumbnail = stream.thumbnail,
       !.view_count = stream.view_count,
       !.like_count = stream.like_count,
       !.comment_count = stream.comment_count,
       !.duration = stream.duration,
       !.ai_summary = stream.ai_summary,
       !.highlights = Some(JsonDumps(OrEmptyList(stream.highlights))),
       !.sentiment = stream.sentiment,
       !.engagement_score = stream.engagement_score,
       !.category = stream.category,
       !.tags = Some(JsonDumps(OrEmptyList(stream.tags))),
       !.keywords = Some(JsonDumps(OrEmptyList(stream.keywords))),
       !.updated_at = t,
       !.last_accessed = t]

(***************************************************************************)
(* _cache_to_stream_details (cache_service.py:164-183).                    *)
(***************************************************************************)
LoadList(col) == IF ColumnTruthy(col) THEN Some(JsonLoads(Val(col))) ELSE None

\* the conversion with the date column left out
CacheToStreamDetailsUndated(cached) ==
    [date |-> -1,
     url |-> cached.url,
     video_id |-> cached.video_id,
     title |-> cached.title,
     thumbnail |-> cached.thumbnail,
     view_count |-> cached.view_count,
     like_count |-> cached.like_count,
     comment_count |-> cached.comment_count,
     duration |-> cached.duration,
     tags |-> LoadList(cached.tags),
     keywords |-> LoadList(cached.keywords),
     ai_summary |-> cached.ai_summary,
     highlights |-> LoadList(cached.highlights),
     sentiment |-> cached.sentiment,
     engagement_score |-> cached.engagement_score,
     category |-> cached.category]

CacheToStreamDetails(cached) ==
    [date |-> cached.date,
     url |-> cached.url,
     video_id |-> cached.video_id,
     title |-> cached.title,
     thumbnail |-> cached.thumbnail,
     view_count |-> cached.view_count,
     like_count |-> cached.like_count,
     comment_count |-> cached.comment_count,
     duration |-> cached.duration,
     tags |-> LoadList(cached.tags),
     keywords |-> LoadList(cached.keywords),
     ai_summary |-> cached.ai_summary,
     highlights |-> LoadList(cached.highlights),
     sentiment |-> cached.sentiment,
     engagement_score |-> cached.engagement_score,
     category |-> cached.category]

(***************************************************************************)
(* What the video platform holds for a video: the fields get_stream_details*)
(* reads from snippet / statistics / contentDetails (llm.py:270-302).      *)
(* vB is a video without tags: snippet.get("tags", []) is the empty list.  *)
(***************************************************************************)
VideoData ==
    [vA |-> [title |-> "title_vA", thumbnail |-> "thumb_vA", viewCount |-> 1000,
             likeCount |-> 50, commentCount |-> 10, duration |-> "PT1H30M",
             tags |-> <<"tag1", "tag2">>, keywords |-> <<"kw_vA">>],
     vB |-> [title |-> "title_vB", thumbnail |-> "thumb_vB", viewCount |-> 0,
             likeCount |-> 0, commentCount |-> 0, duration |-> "",
             tags |-> <<>>, keywords |-> <<"kw_vB">>]]

\* list[:n]
Take(list, n) == SubSeq(list, 1, IF Len(list) < n THEN Len(list) ELSE n)

\* llm.py:296-303: the metadata fields, set once details and comments are in
WithMetadata(stream, data) ==
    [stream EXCEPT
       !.title = Some(data.title),
       !.thumbnail = Some(data.thumbnail),
       !.view_count = Some(data.viewCount),
       !.like_count = Some(data.likeCount),
       !.comment_count = Some(data.commentCount),
       !.duration = Some(data.duration),
       !.tags = Some(Take(data.tags, 5)),
       !.keywords = Some(data.keywords)]

\* llm.py:306-331: the derived analysis of a video
WithAnalysis(stream, v) ==
    [stream EXCEPT
       !.ai_summary = Some(<<"summary", v>>),
       !.highlights = Some(<<"highlight">>),
       !.sentiment = Some("sentiment"),
       !.engagement_score = Some(<<"score", v>>),
       !.category = Some("category")]

(***************************************************************************)
(* URLs, by the form the extractor's patterns tell apart, and              *)
(* extract_video_id_from_url (llm.py:190-205): the patterns are tried in   *)
(* order, the first match gives the identifier, no match gives "".         *)
(***************************************************************************)
WatchUrl(v) == [form |-> "watch", id |-> v]
OtherUrl == [form |-> "other", id |-> ""]

ExtractVideoIdFromUrl(url) ==
    IF url.form \in {"watch", "short"} THEN url.id
    ELSE IF url.form = "embed" THEN url.id
    ELSE IF url.form = "v" THEN url.id
    ELSE ""

(***************************************************************************)
(* The cache service, cut at its awaits.                                   *)
(***************************************************************************)
IdleLoc ==
    [op |-> "none", vid |-> "", stream |-> None, row |-> None, existing |-> FALSE,
     ret |-> None, err |-> "", expect |-> None, out |-> None, path |-> "",
     requests |-> 0, stamp |-> 0]

RowsOf(table, v) == {r \in table : r.video_id = v}

\* CacheExpired with the comparison as >=: an entry exactly 24 h old expires
CacheExpiredAtWindow(cached, t) == t - cached.updated_at >= CACHE_DURATION_HOURS

\* cache_service.py:33-35
CacheExpired(cached, t) == t - cached.updated_at > CACHE_DURATION_HOURS

\* cache_service.py:38-40, with updated_at's onupdate=datetime.utcnow
\* (models.py:44): last_accessed is the utcnow() read when the statement was
\* built, and an UPDATE that does not set updated_at refreshes it with the
\* utcnow() read when the statement is executed
TouchedRow(row, stamp, t) == [row EXCEPT !.last_accessed = stamp, !.updated_at = t]

\* cache_service.py:146
SweepCutoff(t) == t - CACHE_DURATION_HOURS * 2

\* SweepMatches with the comparison as <=: a row exactly at the cutoff matches
SweepMatchesAtCutoff(row, cutoff) == row.last_accessed <= cutoff

\* cache_service.py:149 and 156: WHERE last_accessed < cutoff_time
SweepMatches(row, cutoff) == row.last_accessed < cutoff

\* get_cached_stream up to its second await (cache_service.py:22-40): on a
\* hit the UPDATE is built, with its utcnow(), before it is awaited
GetSelect(p) ==
    /\ pc[p] = "get_select"
    /\ LET rows == RowsOf(db, loc[p].vid) IN
         IF rows = {}
           THEN /\ pc' = [pc EXCEPT ![p] = "get_ret"]
                /\ loc' = [loc EXCEPT ![p].ret = None]
           ELSE LET cached == CHOOSE r \in rows : TRUE IN
                  IF CacheExpired(cached, now)
                    THEN /\ pc' = [pc EXCEPT ![p] = "get_ret"]
                         /\ loc' = [loc EXCEPT ![p].ret = None]
                    ELSE /\ pc' = [pc EXCEPT ![p] = "get_touch"]
                         /\ loc' = [loc EXCEPT ![p].row = Some(cached),
                                               ![p].stamp = now,
                                               ![p].expect = lastPut[loc[p].vid]]
    /\ UNCHANGED <<fnVars, now, ticks, db, lastPut, swp, batchVars, semVars>>

\* get_cached_stream from the UPDATE to the return (cache_service.py:38-46)
GetTouch(p) ==
    /\ pc[p] = "get_touch"
    /\ db' = {IF r.video_id = loc[p].vid THEN TouchedRow(r, loc[p].stamp, now) ELSE r : r \in db}
    /\ pc' = [pc EXCEPT ![p] = "get_ret"]
    /\ loc' = [loc EXCEPT ![p].ret = Some(CacheToStreamDetails(Val(loc[p].row))),
                          ![p].stamp = 0]
    /\ UNCHANGED <<fnVars, now, ticks, lastPut, swp, batchVars, semVars>>

\* cache_stream up to the result of its SELECT (cache_service.py:50-55)
PutSelect(p) ==
    /\ pc[p] = "put_select"
    /\ LET rows == RowsOf(db, loc[p].vid) IN
         loc' = [loc EXCEPT ![p].existing = (rows # {})]
    /\ pc' = [pc EXCEPT ![p] = "put_write"]
    /\ UNCHANGED <<fnVars, now, ticks, db, lastPut, swp, batchVars, semVars>>

\* cache_stream from `if existing` to the commit (cache_service.py:57-106).
\* video_id is unique (models.py:19): the INSERT of a second row for the
\* same video_id fails the commit with an IntegrityError.
PutWrite(p) ==
    /\ pc[p] = "put_write"
    /\ LET v == loc[p].vid
           stream == Val(loc[p].stream)
           rows == RowsOf(db, v) IN
         IF loc[p].existing
           THEN /\ db' = {IF r.video_id = v THEN UpdatedRow(r, stream, now) ELSE r
                            : r \in db}
                /\ lastPut' = IF rows = {} THEN lastPut
                              ELSE [lastPut EXCEPT ![v] = Some(stream)]
                /\ pc' = [pc EXCEPT ![p] = "put_ret"]
                /\ loc' = loc
           ELSE IF rows # {}
             THEN /\ pc' = [pc EXCEPT ![p] = "raised"]
                  /\ loc' = [loc EXCEPT ![p] = [IdleLoc EXCEPT !.err = "IntegrityError",
                                                               !.requests = loc[p].requests]]
                  /\ UNCHANGED <<db, lastPut>>
             ELSE /\ db' = db \cup {NewRow(stream, now)}
                  /\ lastPut' = [lastPut EXCEPT ![v] = Some(stream)]
                  /\ pc' = [pc EXCEPT ![p] = "put_ret"]
                  /\ loc' = loc
    /\ UNCHANGED <<fnVars, now, ticks, swp, batchVars, semVars>>

\* clear_expired_cache up to the result of its SELECT (cache_service.py:144-151)
SweepCount ==
    /\ swp.pc = "idle"
    /\ LET cutoff == SweepCutoff(now) IN
         swp' = [pc |-> "delete", cutoff |-> cutoff,
                 count |-> Cardinality({r \in db : SweepMatches(r, cutoff)}),
                 removed |-> 0, start |-> now]
    /\ UNCHANGED <<fnVars, now, ticks, db, lastPut, pc, loc, batchVars, semVars>>

\* clear_expired_cache, the DELETE and the commit (cache_service.py:154-158)
SweepDelete ==
    /\ swp.pc = "delete"
    /\ LET gone == {r \in db : SweepMatches(r, swp.cutoff)} IN
         /\ db' = db \ gone
         /\ lastPut' = [v \in Vids |->
                          IF RowsOf(gone, v) # {} THEN None ELSE lastPut[v]]
         /\ swp' = [swp EXCEPT !.pc = "done", !.removed = Cardinality(gone)]
    /\ UNCHANGED <<fnVars, now, ticks, pc, loc, batchVars, semVars>>

\* clear_expired_cache returns delete_count (cache_service.py:160)
SweepReturn ==
    /\ swp.pc = "done"
    /\ swp' = [pc |-> "idle", cutoff |-> 0, count |-> 0, removed |-> 0, start |-> 0]
    /\ UNCHANGED <<fnVars, now, ticks, db, lastPut, pc, loc, batchVars, semVars>>

\* the wall clock advances, by the freshness window or one hour more
Tick ==
    /\ ticks < MaxTicks
    /\ \E d \in {CACHE_DURATION_HOURS, CACHE_DURATION_HOURS + 1} : now' = now + d
    /\ ticks' = ticks + 1
    /\ UNCHANGED <<fnVars, db, lastPut, pc, loc, swp, batchVars, semVars>>

(***************************************************************************)
(* Callers of the cache service: each issues get_cached_stream and         *)
(* cache_stream calls, one at a time, concurrently with the others.        *)
(***************************************************************************)
CacheInputs ==
    {BareStream(1, WatchUrl("vA"), "vA"),
     WithAnalysis(WithMetadata(BareStream(1, WatchUrl("vA"), "vA"), VideoData["vA"]), "vA"),
     WithAnalysis(WithMetadata(BareStream(2, WatchUrl("vB"), "vB"), VideoData["vB"]), "vB")}

ClientGet(c, v) ==
    /\ pc[c] = "idle"
    /\ pc' = [pc EXCEPT ![c] = "get_select"]
    /\ loc' = [loc EXCEPT ![c] = [IdleLoc EXCEPT !.op = "get", !.vid = v]]
    /\ UNCHANGED <<fnVars, now, ticks, db, lastPut, swp, batchVars, semVars>>

ClientPut(c, stream) ==
    /\ pc[c] = "idle"
    /\ pc' = [pc EXCEPT ![c] = "put_select"]
    /\ loc' = [loc EXCEPT ![c] = [IdleLoc EXCEPT !.op = "put", !.vid = stream.video_id,
                                                 !.stream = Some(stream)]]
    /\ UNCHANGED <<fnVars, now, ticks, db, lastPut, swp, batchVars, semVars>>

ClientReturn(c) ==
    /\ pc[c] \in {"get_ret", "put_ret", "raised"}
    /\ pc' = [pc EXCEPT ![c] = "idle"]
    /\ loc' = [loc EXCEPT ![c] = IdleLoc]
    /\ UNCHANGED <<fnVars, now, ticks, db, lastPut, swp, batchVars, semVars>>

CacheInit ==
    /\ now = 0
    /\ ticks = 0
    /\ db = {}
    /\ lastPut = [v \in Vids |-> None]
    /\ pc = [p \in Procs |-> "idle"]
    /\ loc = [p \in Procs |-> IdleLoc]
    /\ swp = [pc |-> "idle", cutoff |-> 0, count |-> 0, removed |-> 0, start |-> 0]
    /\ apiKey = TRUE
    /\ entries = <<>>
    /\ bpc = "none"
    /\ win = 0
    /\ results = <<>>
    /\ limit = 0
    /\ permits = 0
    /\ streams = <<>>
    /\ call = None
    /\ ret = None

\* the cache calls of coroutine p
CacheCall(p) ==
    \/ \E v \in Vids : ClientGet(p, v)
    \/ \E s \in CacheInputs : ClientPut(p, s)
    \/ ClientReturn(p)
    \/ GetSelect(p)
    \/ GetTouch(p)
    \/ PutSelect(p)
    \/ PutWrite(p)

\* the cache_stream calls of coroutine p
PutCall(p) ==
    \/ \E s \in CacheInputs : ClientPut(p, s)
    \/ ClientReturn(p)
    \/ PutSelect(p)
    \/ PutWrite(p)

\* a caller of get and put, a concurrent caller of put, and the clock
CacheNext ==
    \/ CacheCall(1)
    \/ PutCall(2)
    \/ Tick

SpecCache == CacheInit /\ [][CacheNext]_vars

\* one caller of get and put, the sweep, and the clock
SweepNext ==
    \/ CacheCall(1)
    \/ SweepCount
    \/ SweepDelete
    \/ SweepReturn
    \/ Tick

SpecSweep == CacheInit /\ [][SweepNext]_vars

(***************************************************************************)
(* get_paginated_streams with include_details (llm.py:673-691) and         *)
(* get_stream_details (llm.py:208-347).  Entry i of the page is run by     *)
(* coroutine i.                                                            *)
(***************************************************************************)
Tasks == 1..MaxEntries

EntryUrls == {WatchUrl("vA"), [form |-> "embed", id |-> "vB"], OtherUrl}

\* every entry from position i on, whatever the window
WindowToEnd(i) == {k \in 1..Len(entries) : i < k}

\* batch = paginated_entries[i : i + 5], as positions of the page
Window(i) == {k \in 1..Len(entries) : i < k /\ k <= i + BATCH_SIZE}

\* llm.py:243-260: the record built when no API key is configured
DummyStream(stream, v) ==
    [stream EXCEPT
       !.title = Some(<<"test_title", stream.date>>),
       !.thumbnail = Some(<<"img", v>>),
       !.ai_summary = Some(<<"summary", "test">>),
       !.highlights = Some(<<"game", "chat">>),
       !.sentiment = Some("positive"),
       !.engagement_score = Some(<<"score", "7.5">>),
       !.category = Some("game"),
       !.view_count = Some(1500),
       !.like_count = Some(120),
       !.comment_count = Some(45),
       !.duration = Some("PT1H30M")]

\* llm.py:266-343: stream_details after the try block, by what happened in it:
\* get_video_details raised ("raise": nothing was set yet) or it returned
\* ("ok").  On the well-formed data of VideoData nothing else in the block
\* raises: get_video_comments and generate_stream_summary catch every
\* exception themselves and the other steps are pure, so the defaults of
\* llm.py:333-340 are never set.
Enriched(stream, v, outcome) ==
    IF outcome = "raise" THEN stream
    ELSE WithAnalysis(WithMetadata(stream, VideoData[v]), v)

\* get_stream_details up to its first await (llm.py:210-223): a URL without
\* identifier returns the bare record at once, any other calls the cache
StartedPc(i) ==
    IF ExtractVideoIdFromUrl(entries[i].url) = "" THEN "done" ELSE "get_select"

StartedLoc(i) ==
    LET video_id == ExtractVideoIdFromUrl(entries[i].url) IN
      IF video_id = ""
        THEN [IdleLoc EXCEPT !.path = "no_id",
                !.out = Some(BareStream(entries[i].date, entries[i].url, video_id))]
        ELSE [IdleLoc EXCEPT !.op = "get", !.vid = video_id]

\* llm.py:678-685: asyncio.gather creates one task per entry of the window;
\* each runs to its first await before the handler is resumed
StartWindow ==
    /\ bpc = "loop"
    /\ win < Len(entries)
    /\ pc' = [i \in DOMAIN pc |-> IF i \in Window(win) THEN StartedPc(i) ELSE pc[i]]
    /\ loc' = [i \in DOMAIN loc |-> IF i \in Window(win) THEN StartedLoc(i) ELSE loc[i]]
    /\ bpc' = "gather"
    /\ UNCHANGED <<fnVars, semVars, cacheVars, apiKey, entries, win, results>>

\* llm.py:223-346: the cache answered; a hit is returned, a miss is enriched
\* (dummy data without API key) and handed to cache_stream
TaskAfterGet(i) ==
    /\ pc[i] = "get_ret"
    /\ IF ~IsNone(loc[i].ret)
         THEN /\ pc' = [pc EXCEPT ![i] = "done"]
              /\ loc' = [loc EXCEPT ![i] = [IdleLoc EXCEPT !.out = loc[i].ret,
                                                           !.path = "hit"]]
         ELSE LET v == loc[i].vid
                  stream_details == BareStream(entries[i].date, entries[i].url, v) IN
                /\ pc' = [pc EXCEPT ![i] = "put_select"]
                /\ IF ~apiKey
                     THEN loc' = [loc EXCEPT ![i].op = "put", ![i].path = "dummy",
                                    ![i].stream = Some(DummyStream(stream_details, v))]
                     ELSE \E outcome \in {"raise", "ok"} :
                            loc' = [loc EXCEPT ![i].op = "put", ![i].path = outcome,
                                      ![i].requests = loc[i].requests + 1,
                                      ![i].stream = Some(Enriched(stream_details, v, outcome))]
    /\ UNCHANGED <<fnVars, cacheVars, batchVars, semVars>>

\* llm.py:263-264 and 346-347: cache_stream returned, stream_details is returned
TaskAfterPut(i) ==
    /\ pc[i] = "put_ret"
    /\ pc' = [pc EXCEPT ![i] = "done"]
    /\ loc' = [loc EXCEPT ![i] = [IdleLoc EXCEPT !.out = loc[i].stream,
                                                 !.path = loc[i].path,
                                                 !.requests = loc[i].requests]]
    /\ UNCHANGED <<fnVars, cacheVars, batchVars, semVars>>

\* an await on the database raises (the store is unavailable); neither
\* get_cached_stream, cache_stream nor get_stream_details catches it
CacheFault(i) ==
    /\ pc[i] \in {"get_select", "get_touch", "put_select", "put_write"}
    /\ pc' = [pc EXCEPT ![i] = "raised"]
    /\ loc' = [loc EXCEPT ![i] = [IdleLoc EXCEPT !.err = "OperationalError",
                                                 !.requests = loc[i].requests]]
    /\ UNCHANGED <<fnVars, cacheVars, batchVars, semVars>>

\* llm.py:687-691: the results of the window that are no exception, in order
RECURSIVE Gathered(_, _)
Gathered(i, last) ==
    IF i > last THEN <<>>
    ELSE (IF pc[i] = "done" THEN <<[src |-> i, stream |-> Val(loc[i].out)]>> ELSE <<>>)
         \o Gathered(i + 1, last)

\* llm.py:685-691: gather returns once every task of the window has finished
CollectWindow ==
    /\ bpc = "gather"
    /\ \A i \in Window(win) : pc[i] \in {"done", "raised"}
    /\ LET last == IF win + BATCH_SIZE < Len(entries) THEN win + BATCH_SIZE
                   ELSE Len(entries) IN
         results' = results \o Gathered(win + 1, last)
    /\ win' = win + BATCH_SIZE
    /\ bpc' = "loop"
    /\ UNCHANGED <<fnVars, semVars, cacheVars, pc, loc, apiKey, entries>>

\* llm.py:655-658 and 699-705: no entry is left, the response is returned
FinishBatch ==
    /\ bpc = "loop"
    /\ win >= Len(entries)
    /\ bpc' = "done"
    /\ UNCHANGED <<fnVars, semVars, cacheVars, pc, loc, apiKey, entries, win, results>>

BatchInit ==
    /\ now = 0
    /\ ticks = 0
    /\ db = {}
    /\ lastPut = [v \in Vids |-> None]
    /\ swp = [pc |-> "idle", cutoff |-> 0, count |-> 0, removed |-> 0, start |-> 0]
    /\ apiKey \in BOOLEAN
    /\ \E n \in 0..MaxEntries : \E urls \in [1..n -> EntryUrls] :
           entries = [i \in 1..n |-> [date |-> i, url |-> urls[i]]]
    /\ pc = [i \in Tasks |-> "none"]
    /\ loc = [i \in Tasks |-> IdleLoc]
    /\ bpc = "loop"
    /\ win = 0
    /\ results = <<>>
    /\ limit = 0
    /\ permits = 0
    /\ streams = <<>>
    /\ call = None
    /\ ret = None

BatchNext ==
    \/ StartWindow
    \/ \E i \in Tasks : GetSelect(i)
    \/ \E i \in Tasks : GetTouch(i)
    \/ \E i \in Tasks : TaskAfterGet(i)
    \/ \E i \in Tasks : PutSelect(i)
    \/ \E i \in Tasks : PutWrite(i)
    \/ \E i \in Tasks : TaskAfterPut(i)
    \/ \E i \in Tasks : CacheFault(i)
    \/ CollectWindow
    \/ FinishBatch

Spec == BatchInit /\ [][BatchNext]_vars

\* every await of the batch eventually returns or raises: the event loop
\* resumes a coroutine whose await has completed
FairSpec == Spec /\ WF_vars(BatchNext)

(***************************************************************************)
(* The window loop of get_paginated_streams (llm.py:683-691) over a page   *)
(* longer than one window.  A task of get_stream_details is taken from its *)
(* first await to its end in one step: it returns a record or it raises.   *)
(***************************************************************************)
PageTasks == 1..MaxPage

\* llm.py:223-347: get_stream_details runs from its first await to its end
GetStreamDetailsEnd(i) ==
    /\ pc[i] = "get_select"
    /\ \E outcome \in {"ok", "raise", "error"} :
         IF outcome = "error"
           THEN /\ pc' = [pc EXCEPT ![i] = "raised"]
                /\ loc' = [loc EXCEPT ![i] = [IdleLoc EXCEPT !.err = "OperationalError"]]
           ELSE /\ pc' = [pc EXCEPT ![i] = "done"]
                /\ loc' = [loc EXCEPT ![i] =
                     [IdleLoc EXCEPT !.path = outcome,
                        !.out = Some(Enriched(BareStream(entries[i].date, entries[i].url,
                                                         loc[i].vid), loc[i].vid, outcome))]]
    /\ UNCHANGED <<fnVars, cacheVars, batchVars, semVars>>

WindowInit ==
    /\ now = 0
    /\ ticks = 0
    /\ db = {}
    /\ lastPut = [v \in Vids |-> None]
    /\ swp = [pc |-> "idle", cutoff |-> 0, count |-> 0, removed |-> 0, start |-> 0]
    /\ apiKey = TRUE
    /\ \E n \in 0..MaxPage : \E urls \in [1..n -> {WatchUrl("vA"), OtherUrl}] :
           entries = [i \in 1..n |-> [date |-> i, url |-> urls[i]]]
    /\ pc = [i \in PageTasks |-> "none"]
    /\ loc = [i \in PageTasks |-> IdleLoc]
    /\ bpc = "loop"
    /\ win = 0
    /\ results = <<>>
    /\ limit = 0
    /\ permits = 0
    /\ streams = <<>>
    /\ call = None
    /\ ret = None

WindowNext ==
    \/ StartWindow
    \/ \E i \in PageTasks : GetStreamDetailsEnd(i)
    \/ CollectWindow
    \/ FinishBatch

SpecWindow == WindowInit /\ [][WindowNext]_vars

(***************************************************************************)
(* StreamService.process_streams_batch (stream_service.py:126-152) with    *)
(* enrich_stream_with_youtube_data (44-82) and analyze_stream_with_ai      *)
(* (84-124).  Stream i of the input is run by coroutine i.                 *)
(***************************************************************************)
\* create_stream_from_url (stream_service.py:30-42): a Stream without
\* metrics and without analysis
NewStream(v) == [video_id |-> v, title |-> "stream", metrics |-> None, analysis |-> None]

\* stream_service.py:48-76: the fields set from the video details
WithYoutubeData(stream) ==
    [stream EXCEPT !.title = VideoData[stream.video_id].title,
                   !.metrics = Some(<<"metrics", stream.video_id>>)]

\* SemaphoreValue with one permit too many
SemaphoreValuePlusOne == limit + 1

\* stream_service.py:128  asyncio.Semaphore(self.config.max_concurrent_analysis)
SemaphoreValue == limit

\* the tasks that hold the semaphore
Holding == {i \in DOMAIN pc : pc[i] \in {"enrich", "re_enrich", "comments", "ai"}}

\* stream_service.py:128-142: the semaphore and one task per stream are
\* created and gathered
SemStartBatch ==
    /\ bpc = "sem_idle"
    /\ permits' = SemaphoreValue
    /\ pc' = [i \in DOMAIN pc |-> IF i <= Len(streams) THEN "sem_wait" ELSE pc[i]]
    /\ bpc' = "sem_gather"
    /\ UNCHANGED <<fnVars, cacheVars, loc, apiKey, entries, win, results, limit, streams>>

\* stream_service.py:131-133: `async with semaphore` is entered and
\* get_video_details is awaited
SemAcquire(i) ==
    /\ pc[i] = "sem_wait"
    /\ permits > 0
    /\ permits' = permits - 1
    /\ pc' = [pc EXCEPT ![i] = "enrich"]
    /\ UNCHANGED <<fnVars, cacheVars, loc, batchVars, limit, streams>>

\* stream_service.py:46-82 and 86-92: get_video_details returned or raised;
\* analyze_stream_with_ai fetches the details again when the stream has
\* no metrics, and the comments otherwise
EnrichReturn(i) ==
    /\ pc[i] = "enrich"
    /\ \E outcome \in {"ok", "raise"} :
         /\ streams' = [streams EXCEPT ![i] =
                          IF outcome = "ok" THEN WithYoutubeData(streams[i]) ELSE streams[i]]
         /\ pc' = [pc EXCEPT ![i] = IF outcome = "ok" THEN "comments" ELSE "re_enrich"]
    /\ UNCHANGED <<fnVars, cacheVars, loc, batchVars, limit, permits>>

\* stream_service.py:88-92: the second get_video_details returned or raised
ReEnrichReturn(i) ==
    /\ pc[i] = "re_enrich"
    /\ \E outcome \in {"ok", "raise"} :
         streams' = [streams EXCEPT ![i] =
                       IF outcome = "ok" THEN WithYoutubeData(streams[i]) ELSE streams[i]]
    /\ pc' = [pc EXCEPT ![i] = "comments"]
    /\ UNCHANGED <<fnVars, cacheVars, loc, batchVars, limit, permits>>

\* stream_service.py:92-107: get_video_comments returned (it never raises),
\* create_full_analysis is awaited
CommentsReturn(i) ==
    /\ pc[i] = "comments"
    /\ pc' = [pc EXCEPT ![i] = "ai"]
    /\ UNCHANGED <<fnVars, cacheVars, loc, batchVars, semVars>>

\* stream_service.py:105-124 and 131-138: create_full_analysis returned its
\* analysis or its fallback analysis, or building the StreamAnalysis raised
\* and the stream is returned as it was; the semaphore is released on return
AiReturn(i) ==
    /\ pc[i] = "ai"
    /\ \E kind \in {"analysis", "fallback", "error"} :
         streams' = [streams EXCEPT ![i].analysis =
                       IF kind = "error" THEN streams[i].analysis
                       ELSE Some(<<kind, streams[i].video_id>>)]
    /\ permits' = permits + 1
    /\ pc' = [pc EXCEPT ![i] = "done"]
    /\ UNCHANGED <<fnVars, cacheVars, loc, batchVars, limit>>

\* stream_service.py:142-152: gather returned; no task raised
SemCollect ==
    /\ bpc = "sem_gather"
    /\ \A i \in 1..Len(streams) : pc[i] = "done"
    /\ results' = [i \in 1..Len(streams) |-> [src |-> i, stream |-> streams[i]]]
    /\ bpc' = "sem_done"
    /\ UNCHANGED <<fnVars, cacheVars, pc, loc, apiKey, entries, win, semVars>>

SemInit ==
    /\ now = 0
    /\ ticks = 0
    /\ db = {}
    /\ lastPut = [v \in Vids |-> None]
    /\ swp = [pc |-> "idle", cutoff |-> 0, count |-> 0, removed |-> 0, start |-> 0]
    /\ apiKey = TRUE
    /\ entries = <<>>
    /\ pc = [i \in Tasks |-> "none"]
    /\ loc = [i \in Tasks |-> IdleLoc]
    /\ bpc = "sem_idle"
    /\ win = 0
    /\ results = <<>>
    /\ limit \in 1..MaxLimit
    /\ permits = 0
    /\ \E n \in 0..MaxEntries : streams \in [1..n -> {NewStream(v) : v \in Vids}]
    /\ call = None
    /\ ret = None

SemNext ==
    \/ SemStartBatch
    \/ \E i \in Tasks : SemAcquire(i)
    \/ \E i \in Tasks : EnrichReturn(i)
    \/ \E i \in Tasks : ReEnrichReturn(i)
    \/ \E i \in Tasks : CommentsReturn(i)
    \/ \E i \in Tasks : AiReturn(i)
    \/ SemCollect

SpecSem == SemInit /\ [][SemNext]_vars

(***************************************************************************)
(* get_paginated_streams of the legacy controller                          *)
(* (rest/legacy_llm_controller.py:109-192) with include_details: the       *)
(* entries of the page become Stream objects, process_streams_batch runs   *)
(* them and the processed streams are converted for the response.          *)
(***************************************************************************)
\* stream_service.py:30-42: None stands for the ValueError raised when
\* extract_video_id (youtube_service.py:192-207) finds no identifier
CreateStreamFromUrl(entry) ==
    LET video_id == ExtractVideoIdFromUrl(entry.url) IN
      IF video_id = "" THEN None
      ELSE Some(NewStream(video_id) @@ [url |-> entry.url, date |-> entry.date])

\* legacy_llm_controller.py:137-146: the streams of the first k entries; an
\* entry whose stream cannot be created is skipped (`continue`)
RECURSIVE CreatedStreams(_)
CreatedStreams(k) ==
    IF k = 0 THEN <<>>
    ELSE CreatedStreams(k - 1) \o
         (IF IsNone(CreateStreamFromUrl(entries[k])) THEN <<>>
          ELSE <<Val(CreateStreamFromUrl(entries[k]))>>)

\* legacy_llm_controller.py:153-170
StreamToDetails(stream) ==
    LET hasMetrics == ~IsNone(stream.metrics)
        hasAnalysis == ~IsNone(stream.analysis)
        data == VideoData[stream.video_id] IN
    [date |-> stream.date, url |-> stream.url, video_id |-> stream.video_id,
     title |-> Some(stream.title),
     thumbnail |-> IF hasMetrics THEN Some(data.thumbnail) ELSE None,
     view_count |-> IF hasMetrics THEN Some(data.viewCount) ELSE None,
     like_count |-> IF hasMetrics THEN Some(data.likeCount) ELSE None,
     comment_count |-> IF hasMetrics THEN Some(data.commentCount) ELSE None,
     duration |-> IF hasMetrics THEN Some(data.duration) ELSE None,
     tags |-> Some(<<>>),
     keywords |-> IF hasAnalysis THEN Some(data.keywords) ELSE Some(<<>>),
     ai_summary |-> IF hasAnalysis THEN Some(Val(stream.analysis)) ELSE None,
     highlights |-> IF hasAnalysis THEN Some(<<"highlight">>) ELSE Some(<<>>),
     sentiment |-> IF hasAnalysis THEN Some("sentiment") ELSE None,
     engagement_score |-> IF hasMetrics THEN Some(<<"score", stream.video_id>>) ELSE None,
     category |-> Some("category")]

\* legacy_llm_controller.py:135-146
LegacyCreateStreams ==
    /\ bpc = "legacy"
    /\ streams' = CreatedStreams(Len(entries))
    /\ bpc' = "sem_idle"
    /\ UNCHANGED <<fnVars, cacheVars, pc, loc, apiKey, entries, win, results, limit, permits>>

\* legacy_llm_controller.py:151-188
LegacyRespond ==
    /\ bpc = "sem_done"
    /\ results' = [k \in DOMAIN results |->
                     [src |-> results[k].src, stream |-> StreamToDetails(results[k].stream)]]
    /\ bpc' = "done"
    /\ UNCHANGED <<fnVars, cacheVars, pc, loc, apiKey, entries, win, semVars>>

LegacyInit ==
    /\ now = 0
    /\ ticks = 0
    /\ db = {}
    /\ lastPut = [v \in Vids |-> None]
    /\ swp = [pc |-> "idle", cutoff |-> 0, count |-> 0, removed |-> 0, start |-> 0]
    /\ apiKey = TRUE
    /\ \E n \in 1..MaxEntries : \E urls \in [1..n -> EntryUrls] :
           entries = [i \in 1..n |-> [date |-> i, url |-> urls[i]]]
    /\ pc = [i \in Tasks |-> "none"]
    /\ loc = [i \in Tasks |-> IdleLoc]
    /\ bpc = "legacy"
    /\ win = 0
    /\ results = <<>>
    /\ limit \in 1..MaxLimit
    /\ permits = 0
    /\ streams = <<>>
    /\ call = None
    /\ ret = None

LegacyNext ==
    \/ LegacyCreateStreams
    \/ SemStartBatch
    \/ \E i \in Tasks : SemAcquire(i)
    \/ \E i \in Tasks : EnrichReturn(i)
    \/ \E i \in Tasks : ReEnrichReturn(i)
    \/ \E i \in Tasks : CommentsReturn(i)
    \/ \E i \in Tasks : AiReturn(i)
    \/ SemCollect
    \/ LegacyRespond

SpecLegacy == LegacyInit /\ [][LegacyNext]_vars

(***************************************************************************)
(* Functions and handlers that share no state.  A call is a record of the  *)
(* function's name and arguments; what it returns or raises is a record    *)
(* [kind |-> "return", value] or [kind |-> "raise", type, status_code].    *)
(***************************************************************************)
Return(v) == [kind |-> "return", value |-> v]
Raise(type, status_code) == [kind |-> "raise", type |-> type, status_code |-> status_code]

\* the rest of the state when only a function is under call
NoSharedState ==
    /\ now = 0
    /\ ticks = 0
    /\ db = {}
    /\ lastPut = [v \in Vids |-> None]
    /\ swp = [pc |-> "idle", cutoff |-> 0, count |-> 0, removed |-> 0, start |-> 0]
    /\ apiKey = TRUE
    /\ entries = <<>>
    /\ pc = [i \in Tasks |-> "none"]
    /\ loc = [i \in Tasks |-> IdleLoc]
    /\ bpc = "none"
    /\ win = 0
    /\ results = <<>>
    /\ limit = 0
    /\ permits = 0
    /\ streams = <<>>
    /\ ret = None

\* the call returns: its result is recorded
Returns(fn, result) ==
    /\ IsNone(ret)
    /\ call.fn = fn
    /\ ret' = Some(result)
    /\ UNCHANGED <<cacheVars, pc, loc, batchVars, semVars, call>>

(***************************************************************************)
(* fetch_live_stream_data, parse_live_stream_data and the handler          *)
(* summarize_live_streams (llm.py:127-187, 549-641).                       *)
(***************************************************************************)
\* the months of the feed's rows; a date filter is a month
FeedDates == {"01", "02"}

RECURSIVE SeqsUpTo(_, _)
SeqsUpTo(S, n) ==
    IF n = 0 THEN {<<>>}
    ELSE SeqsUpTo(S, n - 1) \cup
         {Append(q, x) : q \in {r \in SeqsUpTo(S, n - 1) : Len(r) = n - 1}, x \in S}

\* what client.get(url) does: a response with a status and a body (the rows
\* of the year's table), or an exception of httpx
FeedOutcomes ==
    {[kind |-> "response", status_code |-> 200, rows |-> r] : r \in SeqsUpTo(FeedDates, MaxRows)}
    \cup {[kind |-> "response", status_code |-> c, rows |-> <<>>] : c \in {404, 500}}
    \cup {[kind |-> "raise", type |-> t, rows |-> <<>>] : t \in {"ConnectError", "ReadTimeout"}}

\* llm.py:131-143.  The HTTPException of line 136 is raised inside the try
\* block; it is no httpx.ConnectError, and `except Exception` catches it.
FetchLiveStreamData(up) ==
    LET body == IF up.kind = "raise" THEN Raise(up.type, 0)
                ELSE IF up.status_code # 200 THEN Raise("HTTPException", 404)
                ELSE Return(up.rows) IN
      IF body.kind = "return" THEN body
      ELSE IF body.type = "ConnectError" THEN Raise("HTTPException", 503)
      ELSE Raise("HTTPException", 500)

\* llm.py:146-187: the rows whose date starts with the filter, all rows
\* without filter
ParseLiveStreamData(content, date_filter) ==
    SelectSeq(content, LAMBDA date : IsNone(date_filter) \/ date = Val(date_filter))

\* llm.py:549-641: the status of the response and the number of streams.
\* The summary itself has a fallback for every failure (llm.py:608-632).
SummarizeLiveStreams(up, date_filter) ==
    LET content == FetchLiveStreamData(up) IN
      IF content.kind = "raise" THEN [status_code |-> content.status_code, total_streams |-> 0]
      ELSE LET parsed == ParseLiveStreamData(content.value, date_filter) IN
             IF parsed = <<>> THEN [status_code |-> 404, total_streams |-> 0]
             ELSE [status_code |-> 200, total_streams |-> Len(parsed)]

SummarizeCalls ==
    {[fn |-> "summarize_live_streams", up |-> up, date_filter |-> f] :
        up \in FeedOutcomes, f \in {None} \cup {Some(d) : d \in FeedDates}}

SummarizeLiveStreamsCall ==
    Returns("summarize_live_streams", SummarizeLiveStreams(call.up, call.date_filter))

(***************************************************************************)
(* extract_video_id_from_url (llm.py:190-205) and extract_video_id         *)
(* (youtube_analysis.py:61-74) on URLs as texts.  A text is a sequence of  *)
(* pieces: the literal parts the patterns name, and single characters.     *)
(***************************************************************************)
\* characters of the class [a-zA-Z0-9_-], and characters outside of it
IdChars == {"a", "-"}
OtherChars == {"&", "="}

\* the literal parts of the three patterns, in the order of the list
Patterns ==
    << {"youtube.com/watch?v=", "youtu.be/"}, {"youtube.com/embed/"}, {"youtube.com/v/"} >>

\* pattern.match at position i: the literal part, then exactly
\* VIDEO_ID_LENGTH characters of the class (the group)
MatchesAt(literals, url, i) ==
    /\ url[i] \in literals
    /\ i + VIDEO_ID_LENGTH <= Len(url)
    /\ \A k \in 1..VIDEO_ID_LENGTH : url[i + k] \in IdChars

\* re.search(pattern, url): the leftmost match, its group(1); None without match
ReSearch(literals, url) ==
    LET hits == {i \in 1..Len(url) : MatchesAt(literals, url, i)} IN
      IF hits = {} THEN None
      ELSE LET i == CHOOSE h \in hits : \A g \in hits : h <= g IN
             Some(SubSeq(url, i + 1, i + VIDEO_ID_LENGTH))

\* the loop over the patterns: the group of the first pattern that matches
RECURSIVE FirstMatch(_, _)
FirstMatch(k, url) ==
    IF k > Len(Patterns) THEN None
    ELSE IF ~IsNone(ReSearch(Patterns[k], url)) THEN ReSearch(Patterns[k], url)
    ELSE FirstMatch(k + 1, url)

\* llm.py:190-205: the empty string without match
ExtractVideoIdFromUrlText(url) ==
    IF IsNone(FirstMatch(1, url)) THEN Return(<<>>) ELSE Return(Val(FirstMatch(1, url)))

\* youtube_analysis.py:61-74: ValueError without match
ExtractVideoId(url) ==
    IF IsNone(FirstMatch(1, url)) THEN Raise("ValueError", 0) ELSE Return(Val(FirstMatch(1, url)))

\* the URLs tried: an optional scheme, a literal part (of a pattern, or of
\* another site), an identifier one character short, exact or one character
\* long, and an optional query parameter
UrlHeads == {"youtube.com/watch?v=", "youtu.be/", "youtube.com/embed/", "youtube.com/v/",
             "example.com/"}

UrlText(c) == <<"https://">> \o <<c.head>> \o c.id \o c.tail

ExtractCalls(fn) ==
    {[fn |-> fn, head |-> h, id |-> id, tail |-> t] :
        h \in UrlHeads,
        id \in UNION {[1..n -> IdChars] : n \in (VIDEO_ID_LENGTH - 1)..(VIDEO_ID_LENGTH + 1)},
        t \in {<<>>, <<"&", "t", "=", "a">>}}

ExtractVideoIdFromUrlCall ==
    Returns("extract_video_id_from_url", ExtractVideoIdFromUrlText(UrlText(call)))

ExtractVideoIdCall ==
    Returns("extract_video_id", ExtractVideoId(UrlText(call)))

(***************************************************************************)
(* calculate_engagement_score (llm.py:451-465) and                         *)
(* StreamService._calculate_engagement_score (stream_service.py:154-170).  *)
(* A score is held in hundredths: 750 is 7.50.  With                       *)
(*   like_rate = 100 * like / view,  comment_rate = 100 * comment / view,  *)
(*   duration_factor = min(duration / 60, 3)                               *)
(* the score (like_rate * 0.6 + comment_rate * 0.4) * (1 + factor * 0.1)   *)
(* is (60 like + 40 comment) * (600 + min(duration, 180)) / (600 view).    *)
(***************************************************************************)
Min(a, b) == IF a < b THEN a ELSE b

\* round(x, 2) for x = n / d hundredths: the nearest hundredth.  On an exact
\* tie the binary float that stands for x lies on either side, so both
\* neighbours are possible results.
Round2(n, d) ==
    LET q == n \div d
        r == n % d IN
      IF 2 * r < d THEN {q}
      ELSE IF 2 * r > d THEN {q + 1}
      ELSE {q, q + 1}

\* the score without `min(engagement_score, 10.0)`
EngagementScoreUnclamped(view_count, like_count, comment_count, duration_minutes) ==
    IF view_count = 0 THEN {0}
    ELSE Round2((60 * like_count + 40 * comment_count) * (600 + Min(duration_minutes, 180)),
                6 * view_count)

\* llm.py:451-465: the possible results
EngagementScore(view_count, like_count, comment_count, duration_minutes) ==
    IF view_count = 0 THEN {0}
    ELSE LET num == (60 * like_count + 40 * comment_count)
                       * (600 + Min(duration_minutes, 180))
             den == 6 * view_count IN
           IF num >= 1000 * den THEN {1000} ELSE Round2(num, den)

\* stream_service.py:154-170: the same computation, returned as a Decimal
ServiceEngagementScore(view_count, like_count, comment_count, duration_minutes) ==
    IF view_count = 0 THEN {0}
    ELSE LET like_rate_num == 100 * like_count
             comment_rate_num == 100 * comment_count
             num == (6 * like_rate_num + 4 * comment_rate_num)
                       * (600 + Min(duration_minutes, 180))
             den == 60 * view_count IN
           IF num >= 1000 * den THEN {1000} ELSE Round2(num, den)

Counts == {0, 1, 3, 40, 1000}
Minutes == {0, 45, 180, 600}

EngagementCalls(fn) ==
    {[fn |-> fn, view_count |-> v, like_count |-> l, comment_count |-> c,
      duration_minutes |-> d] : v \in Counts, l \in Counts, c \in Counts, d \in Minutes}

CalculateEngagementScoreCall ==
    /\ call.fn = "calculate_engagement_score"
    /\ \E score \in EngagementScore(call.view_count, call.like_count, call.comment_count,
                                    call.duration_minutes) :
           Returns("calculate_engagement_score", Return(score))

ServiceCalculateEngagementScoreCall ==
    /\ call.fn = "_calculate_engagement_score"
    /\ \E score \in ServiceEngagementScore(call.view_count, call.like_count,
                                           call.comment_count, call.duration_minutes) :
           Returns("_calculate_engagement_score", Return(score))

(***************************************************************************)
(* extract_keywords_from_text (youtube_analysis.py:124-161) and            *)
(* AIService.extract_keywords (ai_service.py:165-221).  A text is a        *)
(* sequence of words separated by blanks.                                  *)
(***************************************************************************)
TextWords == {"game", "Game", "music", "the", "a"}

\* str.lower()
Lower(w) == IF w = "Game" THEN "game" ELSE w

\* len(word)
CharCount(w) == IF w = "a" THEN 1 ELSE IF w = "the" THEN 3 ELSE IF w = "music" THEN 5 ELSE 4

\* youtube_analysis.py:133-155: the stop words among the words used here
STOP_WORDS == {"the", "and", "or"}

\* re.findall(r"[...]{2,}", text.lower()): the lower-cased words of two or
\* more characters, in text order
FindWords(text) ==
    SelectSeq([i \in DOMAIN text |-> Lower(text[i])], LAMBDA w : CharCount(w) >= 2)

\* youtube_analysis.py:157
FilteredWords(text) ==
    SelectSeq(FindWords(text), LAMBDA w : w \notin STOP_WORDS /\ CharCount(w) > 1)

\* Counter(words): the count of a word, and the keys in insertion order,
\* which is the order of first occurrence
CountOf(w, words) == Cardinality({i \in DOMAIN words : words[i] = w})

RECURSIVE CounterKeys(_)
CounterKeys(words) ==
    IF words = <<>> THEN <<>>
    ELSE LET front == CounterKeys(SubSeq(words, 1, Len(words) - 1))
             last == words[Len(words)] IN
           IF \E i \in DOMAIN front : front[i] = last THEN front ELSE Append(front, last)

\* a key put before the keys of equal count
InsertBeforeTies(key, sorted, words) ==
    LET before == SelectSeq(sorted, LAMBDA k : CountOf(k, words) > CountOf(key, words))
        after == SelectSeq(sorted, LAMBDA k : CountOf(k, words) <= CountOf(key, words)) IN
      before \o <<key>> \o after

\* one step of the stable sort by descending count: a key goes behind every
\* key of greater or equal count
InsertByCount(key, sorted, words) ==
    LET before == SelectSeq(sorted, LAMBDA k : CountOf(k, words) >= CountOf(key, words))
        after == SelectSeq(sorted, LAMBDA k : CountOf(k, words) < CountOf(key, words)) IN
      before \o <<key>> \o after

RECURSIVE SortedByCount(_, _)
SortedByCount(keys, words) ==
    IF keys = <<>> THEN <<>>
    ELSE InsertByCount(keys[Len(keys)],
                       SortedByCount(SubSeq(keys, 1, Len(keys) - 1), words), words)

\* Counter.most_common(n): sorted by count, descending and stable, cut at n
MostCommon(words, n) == Take(SortedByCount(CounterKeys(words), words), n)

\* youtube_analysis.py:124-161
ExtractKeywordsFromText(text, max_keywords) ==
    MostCommon(FilteredWords(text), max_keywords)

\* ai_service.py:165-221: the same ranking as Keyword objects
ExtractKeywords(text, max_keywords) ==
    LET filtered_words == FilteredWords(text)
        common == MostCommon(filtered_words, max_keywords) IN
      [k \in DOMAIN common |->
          [text |-> common[k], frequency |-> CountOf(common[k], filtered_words)]]

KeywordCalls(fn) ==
    {[fn |-> fn, text |-> t, max_keywords |-> n] :
        t \in SeqsUpTo(TextWords, MaxTextLen), n \in {1, 2, 10}}

ExtractKeywordsFromTextCall ==
    /\ call.fn = "extract_keywords_from_text"
    /\ Returns("extract_keywords_from_text",
               Return(ExtractKeywordsFromText(call.text, call.max_keywords)))

ExtractKeywordsCall ==
    /\ call.fn = "extract_keywords"
    /\ Returns("extract_keywords", Return(ExtractKeywords(call.text, call.max_keywords)))

(***************************************************************************)
(* categorize_stream (llm.py:468-487) and StreamService._categorize_stream *)
(* (stream_service.py:172-191).                                            *)
(***************************************************************************)
\* the table with the music entry in front of the game entry
CategoriesMusicFirst ==
    << [name |-> "music", keywords |-> {"music", "song", "sing", "cover"}],
       [name |-> "gaming", keywords |-> {"game", "play", "rpg", "fps", "moba"}],
       [name |-> "talk", keywords |-> {"talk", "chat", "qa"}],
       [name |-> "art", keywords |-> {"draw", "art", "diy"}],
       [name |-> "education", keywords |-> {"tutorial", "learn", "study"}],
       [name |-> "cooking", keywords |-> {"cook", "food", "recipe"}],
       [name |-> "fitness", keywords |-> {"workout", "fitness"}],
       [name |-> "review", keywords |-> {"review"}] >>

\* llm.py:472-481 and stream_service.py:176-185: the dict, in insertion
\* order, with the Latin keywords of each entry
Categories ==
    << [name |-> "gaming", keywords |-> {"game", "play", "rpg", "fps", "moba"}],
       [name |-> "music", keywords |-> {"music", "song", "sing", "cover"}],
       [name |-> "talk", keywords |-> {"talk", "chat", "qa"}],
       [name |-> "art", keywords |-> {"draw", "art", "diy"}],
       [name |-> "education", keywords |-> {"tutorial", "learn", "study"}],
       [name |-> "cooking", keywords |-> {"cook", "food", "recipe"}],
       [name |-> "fitness", keywords |-> {"workout", "fitness"}],
       [name |-> "review", keywords |-> {"review"}] >>

\* the words texts are made of, and the keywords each holds as a substring
\* once lower-cased ("party" holds "art", "Gameplay" holds "game" and "play")
TitleWords == {"Gameplay", "musical", "party", "chatting", "cooking", "review", "hello"}

SubstringsOf(w) ==
    IF w = "Gameplay" THEN {"game", "play"}
    ELSE IF w = "musical" THEN {"music"}
    ELSE IF w = "party" THEN {"art"}
    ELSE IF w = "chatting" THEN {"chat"}
    ELSE IF w = "cooking" THEN {"cook"}
    ELSE IF w = "review" THEN {"review"}
    ELSE {}

\* `keyword in all_text`: all_text joins title, tags and the third argument
\* (keywords or description) with spaces and lower-cases the whole; the
\* words of the third argument are carried in tags
InText(keyword, title, tags) ==
    \E i \in DOMAIN (title \o tags) : keyword \in SubstringsOf((title \o tags)[i])

\* the loop of llm.py:483-487 from entry k on
RECURSIVE FirstCategory(_, _, _)
FirstCategory(k, title, tags) ==
    IF k > Len(Categories) THEN "general"
    ELSE IF \E keyword \in Categories[k].keywords : InText(keyword, title, tags)
           THEN Categories[k].name
    ELSE FirstCategory(k + 1, title, tags)

\* llm.py:468-487
CategorizeStream(title, tags) == FirstCategory(1, title, tags)

\* stream_service.py:172-191: StreamCategory members for the same table
ServiceCategorizeStream(title, tags) == FirstCategory(1, title, tags)

CategorizeCalls(fn) ==
    {[fn |-> fn, title |-> t, tags |-> g] :
        t \in SeqsUpTo(TitleWords, MaxTitleLen), g \in SeqsUpTo(TitleWords, 1)}

CategorizeStreamCall ==
    /\ call.fn = "categorize_stream"
    /\ Returns("categorize_stream", Return(CategorizeStream(call.title, call.tags)))

ServiceCategorizeStreamCall ==
    /\ call.fn = "_categorize_stream"
    /\ Returns("_categorize_stream", Return(ServiceCategorizeStream(call.title, call.tags)))

(***************************************************************************)
(* get_video_comments (youtube_analysis.py:97-121),                        *)
(* YouTubeService.get_video_comments (youtube_service.py:94-136) and the   *)
(* use get_stream_details makes of the comments (llm.py:266-343).          *)
(***************************************************************************)
\* an item of the commentThreads answer: Some(text) has
\* snippet.topLevelComment.snippet.textDisplay, None has no "snippet"
CommentItems == {Some("nice"), None}

\* what the commentThreads request can come to: the client raises, or a
\* response arrives whose body is not JSON, is an object without "items",
\* or is an object with a list of items
CommentOutcomes ==
    {[kind |-> k, status_code |-> 0, body |-> "", items |-> <<>>] :
        k \in {"ConnectError", "ReadTimeout"}}
    \cup {[kind |-> "response", status_code |-> c, body |-> "not_json", items |-> <<>>] :
        c \in {200, 403, 500}}
    \cup {[kind |-> "response", status_code |-> 200, body |-> "no_items", items |-> <<>>]}
    \cup {[kind |-> "response", status_code |-> 200, body |-> "items", items |-> s] :
        s \in SeqsUpTo(CommentItems, MaxComments)}

\* youtube_analysis.py:97-121: the items of a 200 answer are returned as
\* they came
GetVideoComments(up) ==
    IF up.kind # "response" THEN Return(<<>>)
    ELSE IF up.status_code # 200 THEN Return(<<>>)
    ELSE IF up.body = "not_json" THEN Return(<<>>)
    ELSE IF up.body = "no_items" THEN Return(<<>>)
    ELSE Return(up.items)

\* youtube_service.py:94-136: the items are parsed inside the try, an item
\* without "snippet" is a KeyError that the except turns into []
ServiceGetVideoComments(up) ==
    IF up.kind # "response" THEN Return(<<>>)
    ELSE IF up.status_code # 200 THEN Return(<<>>)
    ELSE IF up.body = "not_json" THEN Return(<<>>)
    ELSE IF up.body = "no_items" THEN Return(<<>>)
    ELSE IF \E i \in DOMAIN up.items : IsNone(up.items[i]) THEN Return(<<>>)
    ELSE Return([i \in DOMAIN up.items |-> Val(up.items[i])])

\* llm.py:266-343 once get_video_details has returned: the loop of
\* llm.py:278-280 reads comment_item["snippet"] before any field is set, so
\* an item without it raises KeyError into the except of llm.py:342 and the
\* record stays as it was built
EnrichedWithComments(stream, v, up) ==
    LET comments_data == GetVideoComments(up).value
    IN  IF \E i \in DOMAIN comments_data : IsNone(comments_data[i]) THEN stream
        ELSE WithAnalysis(WithMetadata(stream, VideoData[v]), v)

CommentCalls(fn) == {[fn |-> fn, video_id |-> v, up |-> up] : v \in Vids, up \in CommentOutcomes}

GetVideoCommentsCall ==
    /\ call.fn = "get_video_comments"
    /\ Returns("get_video_comments", GetVideoComments(call.up))

ServiceGetVideoCommentsCall ==
    /\ call.fn = "YouTubeService.get_video_comments"
    /\ Returns("YouTubeService.get_video_comments", ServiceGetVideoComments(call.up))

GetStreamDetailsCall ==
    /\ call.fn = "get_stream_details"
    /\ Returns("get_stream_details",
               Return(EnrichedWithComments(
                   BareStream("2024-01", WatchUrl(call.video_id), call.video_id),
                   call.video_id, call.up)))

(***************************************************************************)
(* call_lm_studio and generate_stream_summary (llm.py:61-124, 350-399),    *)
(* AIService.generate_summary and _clean_response (ai_service.py:112-145,  *)
(* 280-292).  A text is a sequence of tokens: tags, a blank, a full stop,  *)
(* a phrase of ten characters and a phrase the marker list holds.          *)
(***************************************************************************)
Tokens == {"<think>", "</think>", " ", ".", "great show", "Let me"}

\* len() of a token
TokenLen(t) ==
    IF t = "<think>" THEN 7
    ELSE IF t = "</think>" THEN 8
    ELSE IF t = "great show" THEN 10
    ELSE IF t = "Let me" THEN 6
    ELSE 1

RECURSIVE TextLen(_)
TextLen(text) == IF text = <<>> THEN 0 ELSE TokenLen(Head(text)) + TextLen(Tail(text))

\* str.strip()
RECURSIVE LStrip(_)
LStrip(text) ==
    IF text # <<>> /\ Head(text) = " " THEN LStrip(Tail(text)) ELSE text

RECURSIVE RStrip(_)
RStrip(text) ==
    IF text # <<>> /\ text[Len(text)] = " " THEN RStrip(SubSeq(text, 1, Len(text) - 1)) ELSE text

Strip(text) == RStrip(LStrip(text))

\* str.find(token): the first position, 0 when there is none
Find(text, token) ==
    IF \E i \in DOMAIN text : text[i] = token
    THEN CHOOSE i \in DOMAIN text : text[i] = token /\ \A j \in 1..(i - 1) : text[j] # token
    ELSE 0

\* re.sub(r"<[^>]+>", "", content)
RemoveTags(text) == SelectSeq(text, LAMBDA t : t \notin {"<think>", "</think>"})

\* content.split("."): the number of pieces, and the pieces up to the n-th
\* full stop joined again by sep
Pieces(text) == Cardinality({i \in DOMAIN text : text[i] = "."}) + 1

RECURSIVE JoinFirst(_, _, _)
JoinFirst(text, n, sep) ==
    IF text = <<>> THEN <<>>
    ELSE IF Head(text) = "."
           THEN IF n = 1 THEN <<>> ELSE sep \o JoinFirst(Tail(text), n - 1, sep)
    ELSE <<Head(text)>> \o JoinFirst(Tail(text), n, sep)

\* llm.py:97-115: the cleaning of the content of a 200 answer
CleanContent(content) ==
    LET stripped == Strip(content)
        close == Find(stripped, "</think>")
        answer == IF stripped # <<>> /\ Head(stripped) = "<think>" /\ close # 0
                    THEN Strip(SubSeq(stripped, close + 1, Len(stripped)))
                    ELSE stripped
        plain == Strip(RemoveTags(answer))
    IN  IF Pieces(plain) > 4 THEN JoinFirst(plain, 4, <<".", " ">>) \o <<".">>
        ELSE plain

\* ai_service.py:280-292
CleanResponse(response) ==
    LET plain == RemoveTags(response)
    IN  Strip(IF Pieces(plain) > 4 THEN JoinFirst(plain, 4, <<".">>) \o <<".">>
              ELSE plain)

\* what the completion request can come to
LmOutcomes ==
    {[kind |-> k, status_code |-> 0, body |-> "", content |-> <<>>] :
        k \in {"ConnectError", "TimeoutException"}}
    \cup {[kind |-> "response", status_code |-> 500, body |-> "error", content |-> <<>>],
          [kind |-> "response", status_code |-> 200, body |-> "malformed", content |-> <<>>]}
    \cup {[kind |-> "response", status_code |-> 200, body |-> "content", content |-> c] :
        c \in SeqsUpTo(Tokens, MaxTokens)}

\* llm.py:61-124
CallLmStudio(up) ==
    IF up.kind = "TimeoutException" THEN Raise("HTTPException", 504)
    ELSE IF up.kind = "ConnectError" THEN Raise("HTTPException", 503)
    ELSE IF up.status_code # 200 THEN Raise("HTTPException", 500)
    ELSE IF up.body # "content" THEN Raise("HTTPException", 500)
    ELSE Return(CleanContent(up.content))

\* the summaries: the model's text, the template of llm.py:390-393 with the
\* title and the first three tags, the sentence of llm.py:399 with the title
ModelSummary(text) == [form |-> "summary", text |-> text, title |-> "", tags |-> <<>>]
TemplateSummary(title, tags) ==
    [form |-> "template", text |-> <<>>, title |-> title, tags |-> Take(tags, 3)]
DefaultSummary(title) == [form |-> "default", text |-> <<>>, title |-> title, tags |-> <<>>]

\* any(word in summary for word in ["Let me", "Based on", "The stream"])
HasMarker(text) == \E i \in DOMAIN text : text[i] = "Let me"

\* the test of ai_service.py:135, which looks at the length alone
TooShort(summary) == summary = <<>> \/ TextLen(Strip(summary)) < 10

\* llm.py:385-389
Unusable(summary) ==
    \/ summary = <<>>
    \/ TextLen(Strip(summary)) < 10
    \/ HasMarker(summary)

\* llm.py:350-399
GenerateStreamSummary(title, tags, up) ==
    LET answer == CallLmStudio(up)
    IN  IF answer.kind = "raise" THEN Return(DefaultSummary(title))
        ELSE IF Unusable(answer.value) THEN Return(TemplateSummary(title, tags))
        ELSE Return(ModelSummary(Strip(answer.value)))

\* ai_service.py:112-145: chain.run raises unless the completion arrived
GenerateSummary(title, tags, up) ==
    IF up.kind # "response" \/ up.status_code # 200 \/ up.body # "content"
    THEN Return(DefaultSummary(title))
    ELSE LET summary == CleanResponse(up.content)
         IN  IF TooShort(summary) THEN Return(TemplateSummary(title, tags))
             ELSE Return(ModelSummary(Strip(summary)))

SummaryTags == {<<>>, <<"t1", "t2", "t3", "t4">>}

SummaryCalls(fn) ==
    {[fn |-> fn, title |-> "title_vA", tags |-> g, up |-> up] :
        g \in SummaryTags, up \in LmOutcomes}

CallLmStudioCall ==
    /\ call.fn = "call_lm_studio"
    /\ Returns("call_lm_studio", CallLmStudio(call.up))

GenerateStreamSummaryCall ==
    /\ call.fn = "generate_stream_summary"
    /\ Returns("generate_stream_summary",
               GenerateStreamSummary(call.title, call.tags, call.up))

GenerateSummaryCall ==
    /\ call.fn = "AIService.generate_summary"
    /\ Returns("AIService.generate_summary", GenerateSummary(call.title, call.tags, call.up))

(***************************************************************************)
(* extract_highlights_from_comments (llm.py:402-448) and                   *)
(* AIService._extract_highlights (ai_service.py:326-364).                  *)
(***************************************************************************)
\* the comments: four that hold a word of highlight_keywords once
\* lower-cased, one of them twice with blanks around it, one longer than 50
\* characters, and one without such a word
HighlightComments == {"wow", " wow ", "So GREAT", "perfect", "amazing x60", "hello"}

\* any(keyword in comment.lower() for keyword in highlight_keywords)
HasHighlightKeyword(comment) == comment # "hello"

\* comment.strip()[:50]
CleanComment(comment) ==
    IF comment = " wow " THEN "wow"
    ELSE IF comment = "amazing x60" THEN "amazing x50"
    ELSE comment

\* the loop of llm.py:429-437 from comment k on, with the highlights so far
RECURSIVE CollectHighlights(_, _, _)
CollectHighlights(comments, k, highlights) ==
    IF k > Len(comments) \/ k > 20 THEN highlights
    ELSE IF /\ HasHighlightKeyword(comments[k])
            /\ \A i \in DOMAIN highlights : highlights[i] # CleanComment(comments[k])
           THEN IF Len(highlights) + 1 >= 3 THEN Append(highlights, CleanComment(comments[k]))
                ELSE CollectHighlights(comments, k + 1,
                                       Append(highlights, CleanComment(comments[k])))
    ELSE CollectHighlights(comments, k + 1, highlights)

HighlightTitles == {"Game night", "game chat", "news"}

\* llm.py:440-446: the highlights made from the title
TitleHighlights(title) ==
    (IF title \in {"Game night", "game chat"} THEN <<"game_streaming">> ELSE <<>>)
    \o (IF title = "game chat" THEN <<"chat_with_viewers">> ELSE <<>>)

\* llm.py:402-448
ExtractHighlightsFromComments(comments, title) ==
    IF comments = <<>> THEN <<>>
    ELSE LET highlights == CollectHighlights(comments, 1, <<>>)
         IN  IF highlights # <<>> THEN highlights
             ELSE IF TitleHighlights(title) # <<>> THEN TitleHighlights(title)
             ELSE <<"live_broadcast">>

\* ai_service.py:326-364
ExtractHighlights(comments) ==
    IF comments = <<>> THEN <<"live_broadcast">>
    ELSE LET highlights == CollectHighlights(comments, 1, <<>>)
         IN  IF highlights # <<>> THEN highlights ELSE <<"live_broadcast">>

\* the lists of comments: up to MaxHighlightComments comments, alone or
\* behind 19 or 20 comments without keyword
HighlightCalls(fn, titles) ==
    {[fn |-> fn, title |-> t, comments |-> [i \in 1..n |-> "hello"] \o c] :
        t \in titles, n \in {0, 19, 20},
        c \in SeqsUpTo(HighlightComments, MaxHighlightComments)}

ExtractHighlightsFromCommentsCall ==
    /\ call.fn = "extract_highlights_from_comments"
    /\ Returns("extract_highlights_from_comments",
               Return(ExtractHighlightsFromComments(call.comments, call.title)))

ExtractHighlightsCall ==
    /\ call.fn = "AIService._extract_highlights"
    /\ Returns("AIService._extract_highlights", Return(ExtractHighlights(call.comments)))

(***************************************************************************)
(* get_paginated_streams without include_details (llm.py:644-705,          *)
(* rest/legacy_llm_controller.py:109-192): the page of the request is cut  *)
(* out of the entries of the feed and every entry of the page becomes a    *)
(* bare record.  page and per_page are at least 1 (Field(ge=1) of the      *)
(* legacy request model, legacy_llm_controller.py:48-49).                  *)
(***************************************************************************)
\* the pages counted with the floor of the quotient
TotalPagesFloor(total_streams, per_page) == total_streams \div per_page

\* llm.py:662, legacy_llm_controller.py:127
TotalPages(total_streams, per_page) == (total_streams + per_page - 1) \div per_page

\* a Python slice seq[start:end] with 0 <= start: both ends are clipped to
\* the length, and an empty range gives the empty list
PySlice(seq, start, end) ==
    LET lo == IF start > Len(seq) THEN Len(seq) ELSE start
        hi == IF end > Len(seq) THEN Len(seq) ELSE end IN
      IF hi <= lo THEN <<>> ELSE SubSeq(seq, lo + 1, hi)

\* llm.py:663-665, legacy_llm_controller.py:128-130
PaginatedEntries(feed, page, per_page) ==
    LET start_idx == (page - 1) * per_page
        end_idx == start_idx + per_page IN
      PySlice(feed, start_idx, end_idx)

\* llm.py:695-697
BasicRecord(entry) ==
    [date |-> entry.date, url |-> entry.url, video_id |-> ExtractVideoIdFromUrl(entry.url)]

\* legacy_llm_controller.py:174-179: the identifier of a watch URL only
LegacyBasicRecord(entry) ==
    [date |-> entry.date, url |-> entry.url,
     video_id |-> IF entry.url.form = "watch" THEN Some(entry.url.id) ELSE None]

PaginatedStreamsResponse(recs, total_streams, page, total_pages, per_page) ==
    [streams |-> recs, total_streams |-> total_streams, current_page |-> page,
     total_pages |-> total_pages, per_page |-> per_page]

\* llm.py:655-705 with include_details false
GetPaginatedStreams(feed, page, per_page) ==
    IF feed = <<>> THEN PaginatedStreamsResponse(<<>>, 0, page, 0, per_page)
    ELSE LET total_streams == Len(feed)
             total_pages == TotalPages(total_streams, per_page)
             paginated_entries == PaginatedEntries(feed, page, per_page) IN
           PaginatedStreamsResponse(
               [k \in 1..Len(paginated_entries) |-> BasicRecord(paginated_entries[k])],
               total_streams, page, total_pages, per_page)

\* legacy_llm_controller.py:119-188 with include_details false
LegacyGetPaginatedStreams(feed, page, per_page) ==
    IF feed = <<>> THEN PaginatedStreamsResponse(<<>>, 0, page, 0, per_page)
    ELSE LET total_streams == Len(feed)
             total_pages == TotalPages(total_streams, per_page)
             paginated_entries == PaginatedEntries(feed, page, per_page) IN
           PaginatedStreamsResponse(
               [k \in 1..Len(paginated_entries) |-> LegacyBasicRecord(paginated_entries[k])],
               total_streams, page, total_pages, per_page)

\* the URLs of a feed: a watch URL and an embed URL
FeedUrls == {WatchUrl("vA"), [form |-> "embed", id |-> "vB"]}

\* the feeds: up to MaxFeedEntries entries, the k-th dated k
Feeds ==
    UNION {{[k \in 1..n |-> [date |-> k, url |-> u[k]]] : u \in [1..n -> FeedUrls]} :
              n \in 0..MaxFeedEntries}

\* the requests: every page of the feed and the pages behind the last one
PaginatedCalls(fn) ==
    {[fn |-> fn, feed |-> f, page |-> p, per_page |-> pp] :
        f \in Feeds, p \in 1..(MaxFeedEntries + 2), pp \in 1..MaxPerPage}

GetPaginatedStreamsCall ==
    /\ call.fn = "get_paginated_streams"
    /\ Returns("get_paginated_streams",
               Return(GetPaginatedStreams(call.feed, call.page, call.per_page)))

LegacyGetPaginatedStreamsCall ==
    /\ call.fn = "legacy.get_paginated_streams"
    /\ Returns("legacy.get_paginated_streams",
               Return(LegacyGetPaginatedStreams(call.feed, call.page, call.per_page)))

FnInit ==
    /\ NoSharedState
    /\ \/ call \in SummarizeCalls
       \/ call \in ExtractCalls("extract_video_id_from_url")
       \/ call \in ExtractCalls("extract_video_id")
       \/ call \in EngagementCalls("calculate_engagement_score")
       \/ call \in EngagementCalls("_calculate_engagement_score")
       \/ call \in KeywordCalls("extract_keywords_from_text")
       \/ call \in KeywordCalls("extract_keywords")
       \/ call \in CategorizeCalls("categorize_stream")
       \/ call \in CategorizeCalls("_categorize_stream")
       \/ call \in CommentCalls("get_video_comments")
       \/ call \in CommentCalls("YouTubeService.get_video_comments")
       \/ call \in CommentCalls("get_stream_details")
       \/ call \in SummaryCalls("call_lm_studio")
       \/ call \in SummaryCalls("generate_stream_summary")
       \/ call \in SummaryCalls("AIService.generate_summary")
       \/ call \in HighlightCalls("extract_highlights_from_comments", HighlightTitles)
       \/ call \in HighlightCalls("AIService._extract_highlights", {""})
       \/ call \in PaginatedCalls("get_paginated_streams")
       \/ call \in PaginatedCalls("legacy.get_paginated_streams")

FnNext ==
    \/ SummarizeLiveStreamsCall
    \/ ExtractVideoIdFromUrlCall
    \/ ExtractVideoIdCall
    \/ CalculateEngagementScoreCall
    \/ ServiceCalculateEngagementScoreCall
    \/ ExtractKeywordsFromTextCall
    \/ ExtractKeywordsCall
    \/ CategorizeStreamCall
    \/ ServiceCategorizeStreamCall
    \/ GetVideoCommentsCall
    \/ ServiceGetVideoCommentsCall
    \/ GetStreamDetailsCall
    \/ CallLmStudioCall
    \/ GenerateStreamSummaryCall
    \/ GenerateSummaryCall
    \/ ExtractHighlightsFromCommentsCall
    \/ ExtractHighlightsCall
    \/ GetPaginatedStreamsCall
    \/ LegacyGetPaginatedStreamsCall

SpecFn == FnInit /\ [][FnNext]_vars

(***************************************************************************)
(* get_paginated_streams with include_details (llm.py:673-691) over a page *)
(* of up to MaxPage entries and a cache that earlier requests have filled. *)
(* At most two entries of the page carry an identifier; an entry without   *)
(* one returns at once (llm.py:214-220).                                   *)
(***************************************************************************)
\* the record an earlier request has stored for vA, from an entry of
\* another date that gave the video by its short URL
EarlierEntry == [date |-> 0, url |-> [form |-> "short", id |-> "vA"]]

\* what the earlier request left in the cache: nothing, the enriched record
\* (llm.py:346) or the dummy record (llm.py:263), written at hour 0
EarlierStreams ==
    {Enriched(BareStream(EarlierEntry.date, EarlierEntry.url, "vA"), "vA", "ok"),
     DummyStream(BareStream(EarlierEntry.date, EarlierEntry.url, "vA"), "vA")}

\* the pages: entries i and j carry the URLs u and w, the others no identifier
PageOf(n, i, j, u, w) ==
    [k \in 1..n |-> [date |-> k,
                     url |-> IF k = i THEN u ELSE IF k = j THEN w ELSE OtherUrl]]

PageUrls == {WatchUrl("vA"), [form |-> "embed", id |-> "vA"], [form |-> "embed", id |-> "vB"]}

PageInit ==
    /\ now \in {1, CACHE_DURATION_HOURS + 1}
    /\ ticks = 0
    /\ \/ db = {} /\ lastPut = [v \in Vids |-> None]
       \/ \E stream \in EarlierStreams :
            /\ db = {NewRow(stream, 0)}
            /\ lastPut = [v \in Vids |-> IF v = "vA" THEN Some(stream) ELSE None]
    /\ swp = [pc |-> "idle", cutoff |-> 0, count |-> 0, removed |-> 0, start |-> 0]
    /\ apiKey \in BOOLEAN
    /\ \E n \in 1..MaxPage : \E i \in 1..n : \E j \in i..n : \E u, w \in PageUrls :
           entries = PageOf(n, i, j, u, w)
    /\ pc = [i \in PageTasks |-> "none"]
    /\ loc = [i \in PageTasks |-> IdleLoc]
    /\ bpc = "loop"
    /\ win = 0
    /\ results = <<>>
    /\ limit = 0
    /\ permits = 0
    /\ streams = <<>>
    /\ call = None
    /\ ret = None

PageNext ==
    \/ StartWindow
    \/ \E i \in PageTasks : GetSelect(i)
    \/ \E i \in PageTasks : GetTouch(i)
    \/ \E i \in PageTasks : TaskAfterGet(i)
    \/ \E i \in PageTasks : PutSelect(i)
    \/ \E i \in PageTasks : PutWrite(i)
    \/ \E i \in PageTasks : TaskAfterPut(i)
    \/ \E i \in PageTasks : CacheFault(i)
    \/ CollectWindow
    \/ FinishBatch

SpecPage == PageInit /\ [][PageNext]_vars

(***************************************************************************)
(* Properties of the cache service.                                        *)
(***************************************************************************)
\* the data columns of a row: everything but the three timestamps
DataOf(row) == [row EXCEPT !.created_at = 0, !.updated_at = 0, !.last_accessed = 0]

\* C4: get(video_id) is a hit exactly when a row for video_id exists and
\* now - updated_at <= 24 h, and a miss (None) otherwise; a hit returns the
\* row it read and leaves the row's last_accessed at the now of the hit.
C4_GetHitIffFresh ==
    [][\A p \in Procs :
         /\ (pc[p] = "get_select" /\ pc'[p] # "get_select") =>
              /\ (pc'[p] = "get_touch") <=>
                   (\E r \in RowsOf(db, loc[p].vid) :
                        now - r.updated_at <= CACHE_DURATION_HOURS)
              /\ (pc'[p] # "get_touch") => (pc'[p] = "get_ret" /\ IsNone(loc'[p].ret))
         /\ (pc[p] = "get_touch" /\ pc'[p] # "get_touch") =>
              /\ pc'[p] = "get_ret"
              /\ ~IsNone(loc'[p].ret)
              /\ Val(loc'[p].ret).video_id = loc[p].vid
              /\ Val(loc'[p].ret).date = Val(loc[p].row).date
              /\ Val(loc'[p].ret).url = Val(loc[p].row).url
              /\ Val(loc'[p].ret).title = Val(loc[p].row).title
              /\ Val(loc'[p].ret).ai_summary = Val(loc[p].row).ai_summary
              /\ \A r \in RowsOf(db', loc[p].vid) : r.last_accessed = loc[p].stamp
      ]_vars

\* a get has hit a row that was exactly 24 h old and has returned
C4_Witness ==
    \E p \in Procs :
        /\ pc[p] = "get_ret" /\ loc[p].op = "get" /\ ~IsNone(loc[p].ret)
        /\ now - Val(loc[p].row).updated_at = CACHE_DURATION_HOURS
        /\ \E r \in RowsOf(db, loc[p].vid) : r.last_accessed = now

\* C5: a get that follows a put returns a record equal, in every field, to
\* the record that was put (unset fields staying unset).
C5_RoundTrip ==
    \A p \in Procs :
        (pc[p] = "get_ret" /\ loc[p].op = "get" /\ ~IsNone(loc[p].ret))
            => loc[p].ret = loc[p].expect

\* C6: a put of the record that the previous put of this video_id stored
\* leaves the row's data columns and created_at as they were.
C6_PutIdempotent ==
    [][\A p \in Procs :
         (/\ pc[p] = "put_write" /\ pc'[p] = "put_ret"
          /\ lastPut[loc[p].vid] = loc[p].stream)
         => \A r \in RowsOf(db, loc[p].vid) :
              \E r2 \in RowsOf(db', loc[p].vid) :
                  DataOf(r2) = DataOf(r) /\ r2.created_at = r.created_at
      ]_vars

\* C7: under every interleaving of two puts (and gets) of one video_id no
\* call fails, the table holds at most one row per video_id, and each row
\* holds the complete values of one put.
C7_ConcurrentPutsSafe ==
    /\ \A p \in Procs : pc[p] # "raised"
    /\ \A v \in Vids : Cardinality(RowsOf(db, v)) <= 1
    /\ \A r \in db : \E s \in CacheInputs :
           \/ DataOf(r) = DataOf(NewRow(s, 0))
           \/ DataOf(r) = DataOf(UpdatedRow(NewRow(s, 0), s, 0))

\* C8: the sweep's DELETE removes exactly the rows whose last_accessed is
\* older than (the sweep's now) - 48 h; every other row stays as it is.
C8_SweepDeletesExactlyOld ==
    [][(swp.pc = "delete" /\ swp'.pc = "done")
         => db' = {r \in db : ~(r.last_accessed < swp.start - 48)}
      ]_vars

\* a sweep has removed a row and has left another row in the table
C8_Witness == swp.pc = "done" /\ swp.removed >= 1 /\ db # {}

\* C9: the count the sweep returns is the number of rows it removed.
C9_CountIsRemoved == swp.pc = "done" => swp.count = swp.removed

(***************************************************************************)
(* Properties of the batch pipelines.                                      *)
(***************************************************************************)
\* every optional field of a record is set
FullyEnriched(s) ==
    /\ ~IsNone(s.title) /\ ~IsNone(s.thumbnail) /\ ~IsNone(s.view_count)
    /\ ~IsNone(s.like_count) /\ ~IsNone(s.comment_count) /\ ~IsNone(s.duration)
    /\ ~IsNone(s.tags) /\ ~IsNone(s.keywords) /\ ~IsNone(s.ai_summary)
    /\ ~IsNone(s.highlights) /\ ~IsNone(s.sentiment)
    /\ ~IsNone(s.engagement_score) /\ ~IsNone(s.category)

\* C1: the batch returns exactly one record per entry.
C1_OneRecordPerEntry == bpc = "done" => Len(results) = Len(entries)

\* C2: the record at position k of the output was produced from the entry
\* at position k of the input.
C2_InputOrder == \A k \in 1..Len(results) : results[k].src = k

\* C3: when the metadata fetch of one entry raised, the batch returns a
\* record for every entry, the failing entry's record is bare (date, url and
\* video_id only) and every other entry with an identifier is fully enriched.
C3_FetchFailureIsolated ==
    (bpc = "done" /\ Cardinality({i \in DOMAIN entries : loc[i].path = "raise"}) = 1)
    => /\ Len(results) = Len(entries)
       /\ \A k \in 1..Len(results) :
            LET i == results[k].src
                s == results[k].stream IN
              IF loc[i].path = "raise"
                THEN s = BareStream(entries[i].date, entries[i].url,
                                    ExtractVideoIdFromUrl(entries[i].url))
                ELSE loc[i].path = "no_id" \/ FullyEnriched(s)

\* C10: at every moment at most max_concurrent_analysis tasks hold the
\* semaphore, that is, execute metadata or analysis work.
C10_AtMostLimitInFlight == Cardinality(Holding) <= limit

\* as many tasks as the limit allows are at work while another one waits
C10_Witness ==
    /\ Cardinality(Holding) = limit
    /\ \E i \in DOMAIN pc : pc[i] = "sem_wait"
    /\ \E i \in DOMAIN pc : pc[i] = "done"

\* the tasks that have started and have not finished
InFlight == {i \in DOMAIN pc : pc[i] \notin {"none", "done", "raised"}}

C12_NoIdEntryReturnedBare ==
    bpc = "done" =>
      \A i \in DOMAIN entries :
        ExtractVideoIdFromUrl(entries[i].url) = "" =>
          \E k \in DOMAIN results :
             results[k].stream = BareStream(entries[i].date, entries[i].url, "")

\* C13: when a cache call of an entry raises, the entry is treated as a
\* cache miss and its record is still part of the batch's result.
C13_CacheFaultIsMiss ==
    bpc = "done" =>
      \A i \in DOMAIN entries :
        loc[i].err \in {"OperationalError", "IntegrityError"} =>
          \E k \in DOMAIN results : results[k].src = i

(***************************************************************************)
(* Properties of the functions and handlers without shared state.          *)
(***************************************************************************)
\* C14: a batch-level failure has the status of its cause: 404 when the
\* year's feed document does not exist or holds no entry, 503 when the feed
\* host cannot be connected to, 500 only for other failures.
C14_StatusOfCause ==
    (~IsNone(ret) /\ call.fn = "summarize_live_streams") =>
      LET status == Val(ret).status_code
          up == call.up
          notFound == \/ up.kind = "response" /\ up.status_code = 404
                      \/ /\ up.kind = "response" /\ up.status_code = 200
                         /\ ParseLiveStreamData(up.rows, call.date_filter) = <<>> IN
        /\ notFound => status = 404
        /\ (up.kind = "raise" /\ up.type = "ConnectError") => status = 503
        /\ status = 500 => ~notFound

\* C15: the watch, short-link, embed and /v/ forms of an 11-character
\* identifier all extract to that identifier; a URL that matches no pattern
\* yields the not-found value; extraction never raises.
C15_ExtractsIdOrNotFound ==
    (~IsNone(ret) /\ call.fn \in {"extract_video_id_from_url", "extract_video_id"}) =>
      /\ Val(ret).kind = "return"
      /\ (call.head # "example.com/" /\ Len(call.id) = 11 /\ call.tail = <<>>)
            => Val(ret).value = call.id
      /\ (call.head = "example.com/" \/ Len(call.id) < 11) => Val(ret).value = <<>>

\* C16: the engagement score is exactly 0.0 when view_count = 0 and lies in
\* [0, 10] for all non-negative inputs (scores in hundredths: 0..1000).
C16_ScoreZeroOrInRange ==
    (~IsNone(ret) /\ call.fn \in {"calculate_engagement_score", "_calculate_engagement_score"}) =>
      /\ Val(ret).kind = "return"
      /\ call.view_count = 0 => Val(ret).value = 0
      /\ Val(ret).value >= 0 /\ Val(ret).value <= 1000

\* a score was clamped to 10: more likes than views
C16_Witness ==
    /\ ~IsNone(ret) /\ call.fn = "calculate_engagement_score"
    /\ call.like_count > call.view_count /\ call.view_count > 0
    /\ Val(ret).value = 1000

\* the keywords of a result as texts
KeywordTexts(fn, value) ==
    IF fn = "extract_keywords" THEN [k \in DOMAIN value |-> value[k].text] ELSE value

\* how often a word occurs in a text, lower-cased, and where it occurs first
Occurrences(w, text) == {i \in DOMAIN text : Lower(text[i]) = w}
FirstOccurrence(w, text) == CHOOSE i \in Occurrences(w, text) : \A j \in Occurrences(w, text) : i <= j

\* C17: keyword extraction returns at most N words, none of them a stop
\* word or shorter than 2 characters, in the order of non-increasing
\* frequency, words of equal frequency in the order of first occurrence; it
\* returns N words when the text holds that many eligible words.
C17_TopKeywords ==
    (~IsNone(ret) /\ call.fn \in {"extract_keywords_from_text", "extract_keywords"}) =>
      LET kw == KeywordTexts(call.fn, Val(ret).value)
          eligible == {Lower(call.text[i]) : i \in DOMAIN call.text}
                         \ ({"the", "and", "or"} \cup {"a"}) IN
        /\ Val(ret).kind = "return"
        /\ Len(kw) <= call.max_keywords
        /\ Len(kw) = Min(call.max_keywords, Cardinality(eligible))
        /\ \A k \in DOMAIN kw : kw[k] \in eligible
        /\ \A j, k \in DOMAIN kw :
             j < k =>
               \/ Cardinality(Occurrences(kw[j], call.text))
                    > Cardinality(Occurrences(kw[k], call.text))
               \/ /\ Cardinality(Occurrences(kw[j], call.text))
                       = Cardinality(Occurrences(kw[k], call.text))
                  /\ FirstOccurrence(kw[j], call.text) < FirstOccurrence(kw[k], call.text)

\* two words of equal frequency were ranked, the one met first in front
C17_Witness ==
    /\ ~IsNone(ret) /\ call.fn = "extract_keywords_from_text"
    /\ call.text = <<"music", "the", "Game", "a">>
    /\ Val(ret).value = <<"music", "game">>

\* the categories in the order the claim fixes
ClaimedOrder ==
    <<"gaming", "music", "talk", "art", "education", "cooking", "fitness", "review">>

\* the category of the given name has a keyword in the text of the call
CategoryHit(name) ==
    \E k \in DOMAIN Categories :
        /\ Categories[k].name = name
        /\ \E keyword \in Categories[k].keywords :
             \E i \in DOMAIN (call.title \o call.tags) :
                 keyword \in SubstringsOf((call.title \o call.tags)[i])

\* C18: categorization returns the first category, in the order gaming,
\* music, talk, art, education, cooking, fitness, review, that has a keyword
\* in the text, and the default category when none has; a text with a gaming
\* and a music keyword is gaming.
C18_FirstCategoryWins ==
    (~IsNone(ret) /\ call.fn \in {"categorize_stream", "_categorize_stream"}) =>
      LET category == Val(ret).value IN
        /\ (category = "general") <=> (\A k \in DOMAIN ClaimedOrder : ~CategoryHit(ClaimedOrder[k]))
        /\ \A k \in DOMAIN ClaimedOrder :
             category = ClaimedOrder[k] =>
               /\ CategoryHit(ClaimedOrder[k])
               /\ \A j \in 1..(k - 1) : ~CategoryHit(ClaimedOrder[j])
        /\ (CategoryHit("gaming") /\ CategoryHit("music")) => category = "gaming"

\* a text with a music keyword in front of a gaming keyword was classified
C18_Witness ==
    /\ ~IsNone(ret) /\ call.fn = "categorize_stream"
    /\ call.title = <<"musical", "Gameplay">>
    /\ Val(ret).value = "gaming"

\* the comments request of the call failed: no answer, an answer other than
\* 200, or a body that is not the list of comment threads it should be
CommentsFailed ==
    \/ call.up.kind # "response"
    \/ call.up.status_code # 200
    \/ call.up.body = "not_json"
    \/ call.up.body = "items" /\ \E i \in DOMAIN call.up.items : IsNone(call.up.items[i])

\* C19: whatever the comments request comes to (a status other than 200, a
\* connection error, a timeout, a malformed body), fetching the comments
\* returns the empty sequence and raises nothing, and the entry keeps the
\* metadata that was already fetched.
C19_CommentsFailureIsEmpty ==
    (/\ ~IsNone(ret)
     /\ call.fn \in {"get_video_comments", "YouTubeService.get_video_comments", "get_stream_details"}
     /\ CommentsFailed) =>
      /\ call.fn \in {"get_video_comments", "YouTubeService.get_video_comments"} =>
           Val(ret) = Return(<<>>)
      /\ call.fn = "get_stream_details" =>
           Val(ret).value.title = Some(VideoData[call.video_id].title)

\* the cleaned text of the completion the call received, by the cleaning of
\* the implementation called
CleanedText ==
    IF call.fn = "generate_stream_summary" THEN CleanContent(call.up.content)
    ELSE CleanResponse(call.up.content)

\* C20: whatever the summarization request comes to, the summary step
\* returns a non-empty text and raises nothing; when the cleaned text is
\* empty, shorter than 10 characters or holds an off-language marker, the
\* result is the template built from the title and the tags.
C20_SummaryNeverFatal ==
    (~IsNone(ret) /\ call.fn \in {"generate_stream_summary", "AIService.generate_summary"}) =>
      /\ Val(ret).kind = "return"
      /\ Val(ret).value.form = "summary" => TextLen(Val(ret).value.text) > 0
      /\ (/\ call.up.kind = "response" /\ call.up.status_code = 200 /\ call.up.body = "content"
          /\ \/ CleanedText = <<>>
             \/ TextLen(CleanedText) < 10
             \/ \E i \in DOMAIN CleanedText : CleanedText[i] = "Let me") =>
           /\ Val(ret).value.form = "template"
           /\ Val(ret).value.title = call.title
           /\ Val(ret).value.tags = SubSeq(call.tags, 1, IF Len(call.tags) < 3 THEN Len(call.tags) ELSE 3)

(***************************************************************************)
(* Properties of the batch over a filled cache.                            *)
(***************************************************************************)
\* C21: on a cache hit the entry's task returns the cached record, makes no
\* metadata, comment or summarization request and no cache put, and the only
\* change of state is the row's last_accessed.
C21_HitOnlyTouchesLastAccessed ==
    [][\A i \in PageTasks :
         /\ (pc[i] = "get_touch" /\ pc'[i] = "get_ret") =>
              /\ loc'[i].ret = Some(CacheToStreamDetails(Val(loc[i].row)))
              /\ db' = {IF r.video_id = loc[i].vid
                          THEN [r EXCEPT !.last_accessed = loc[i].stamp]
                        ELSE r : r \in db}
         /\ (pc[i] = "get_ret" /\ ~IsNone(loc[i].ret) /\ pc'[i] # "get_ret") =>
              /\ pc'[i] = "done"
              /\ loc'[i].out = loc[i].ret
              /\ loc'[i].requests = 0
              /\ db' = db
      ]_vars

\* C22: processing one entry issues at most one video-details request: a
\* lookup that failed is not made again in the same batch run, so no task is
\* ever waiting for a second get_video_details.
C22_SingleDetailsRequest ==
    /\ \A i \in DOMAIN pc : pc[i] # "re_enrich"
    /\ \A i \in DOMAIN loc : loc[i].requests <= 1

\* C23: a cache row for a video_id is created only by a successful
\* enrichment of that video_id: every row that appears for a video_id that
\* had none carries the metadata fetched for that video, so that an entry
\* whose fetch failed or was not attempted leaves no row behind.
C23_RowOnlyFromEnrichment ==
    [][\A r \in db' :
         RowsOf(db, r.video_id) = {} =>
           /\ r.title = Some(VideoData[r.video_id].title)
           /\ r.view_count = Some(VideoData[r.video_id].viewCount)
           /\ ~IsNone(r.ai_summary)
      ]_vars

\* the window of the page that position k falls in
WindowOf(k) == (k - 1) \div 5

\* C24: no task of a later window starts before every task of the earlier
\* windows has finished, and when the same video_id occurs in a window and
\* again in a later one, with the earlier entry's task returned, the later
\* entry is served as a cache hit and makes no upstream fetch.
C24_LaterWindowSeesWrites ==
    \A i, j \in DOMAIN entries :
        WindowOf(i) < WindowOf(j) =>
          /\ pc[j] # "none" => pc[i] \in {"done", "raised"}
          /\ (/\ ExtractVideoIdFromUrl(entries[i].url) # ""
              /\ ExtractVideoIdFromUrl(entries[i].url) = ExtractVideoIdFromUrl(entries[j].url)
              /\ pc[i] = "done" /\ pc[j] = "done") =>
               /\ loc[j].path = "hit"
               /\ loc[j].requests = 0

\* an entry of the first window fetched the video and stored it, and the
\* entry of the second window with the same video was served from the cache
C24_Witness ==
    \E i, j \in DOMAIN entries :
        /\ WindowOf(i) < WindowOf(j)
        /\ ExtractVideoIdFromUrl(entries[i].url) = ExtractVideoIdFromUrl(entries[j].url)
        /\ pc[i] = "done" /\ loc[i].path = "ok" /\ loc[i].requests = 1
        /\ pc[j] = "done" /\ loc[j].path = "hit"
        /\ bpc = "done"

\* C25: when every external call eventually returns or raises, the batch
\* run terminates with every entry in its terminal state DONE, the state in
\* which the entry has yielded its record.
C25_EveryEntryDone ==
    <>(bpc = "done" /\ \A i \in DOMAIN entries : pc[i] = "done")

(***************************************************************************)
(* Properties of highlight extraction.                                     *)
(***************************************************************************)
\* the positions, among the first 20 comments of the call, of the comments
\* with an excitement word whose cut text no earlier such comment has
FirstExcited ==
    LET excited == {i \in DOMAIN call.comments : i <= 20 /\ call.comments[i] # "hello"}
    IN  {i \in excited :
           \A j \in excited :
               j < i => CleanComment(call.comments[j]) # CleanComment(call.comments[i])}

\* C26: highlight extraction returns between 1 and 3 highlights: the first
\* 3 distinct comments, cut to 50 characters and in order, among the first
\* 20 comments that hold an excitement word; without any (an empty list of
\* comments included) the highlights made from the title; without those the
\* one generic highlight.
C26_OneToThreeHighlights ==
    (~IsNone(ret) /\ call.fn \in {"extract_highlights_from_comments",
                                  "AIService._extract_highlights"}) =>
      LET highlights == Val(ret).value
          canned == (IF call.title \in {"Game night", "game chat"}
                       THEN <<"game_streaming">> ELSE <<>>)
                    \o (IF call.title = "game chat" THEN <<"chat_with_viewers">> ELSE <<>>)
      IN  /\ Len(highlights) >= 1
          /\ Len(highlights) <= 3
          /\ FirstExcited # {} =>
               /\ Len(highlights) = (IF Cardinality(FirstExcited) < 3
                                       THEN Cardinality(FirstExcited) ELSE 3)
               /\ \A k \in DOMAIN highlights :
                    \E i \in FirstExcited :
                        /\ Cardinality({j \in FirstExcited : j < i}) = k - 1
                        /\ highlights[k] = CleanComment(call.comments[i])
          /\ (FirstExcited = {} /\ canned # <<>>) => highlights = canned
          /\ (FirstExcited = {} /\ canned = <<>>) => highlights = <<"live_broadcast">>

(***************************************************************************)
(* Properties of the cache rows' timestamps.                               *)
(***************************************************************************)
\* C27: a cache hit changes only last_accessed of the row; updated_at and
\* every data field stay as they were, so that a read never extends the
\* freshness of the row.
C27_HitKeepsUpdatedAt ==
    [][\A p \in Procs :
         (pc[p] = "get_touch" /\ pc'[p] = "get_ret") =>
           /\ Cardinality(db') = Cardinality(db)
           /\ \A r \in db : \E t \in {r.last_accessed, loc[p].stamp} :
                  [r EXCEPT !.last_accessed = t] \in db'
      ]_vars

\* C28: every row of every reachable cache state has
\* created_at <= updated_at <= last_accessed, and the sweep never deletes a
\* row that a get at the same instant would return as a hit.
C28_TimestampsOrdered ==
    /\ [](\A r \in db : r.created_at <= r.updated_at /\ r.updated_at <= r.last_accessed)
    /\ [][(swp.pc = "delete" /\ swp'.pc = "done") =>
            \A r \in db \ db' : now - r.updated_at > CACHE_DURATION_HOURS]_vars

(***************************************************************************)
(* Properties of the identity fields of the returned records.              *)
(***************************************************************************)
\* the entries with an identifier whose task has returned its record
Returned == {i \in DOMAIN entries :
               pc[i] = "done" /\ ExtractVideoIdFromUrl(entries[i].url) # ""}

\* C29, as claimed: the record returned for an entry with an identifier has
\* the entry's date and url and the identifier extracted from that url, on
\* a miss and on a cache hit alike.
C29_RecordCarriesEntry ==
    \A i \in Returned :
        /\ Val(loc[i].out).video_id = ExtractVideoIdFromUrl(entries[i].url)
        /\ Val(loc[i].out).date = entries[i].date
        /\ Val(loc[i].out).url = entries[i].url

\* C29, amended: the record's video_id is the identifier extracted from the
\* entry's url; on a miss date and url are the entry's, on a cache hit they
\* are the date and url of the entry that stored the row, an earlier
\* request's or another entry's of the page with the same video.
C29_RecordCarriesEntryOrRow ==
    \A i \in Returned :
        /\ Val(loc[i].out).video_id = ExtractVideoIdFromUrl(entries[i].url)
        /\ loc[i].path # "hit" =>
             /\ Val(loc[i].out).date = entries[i].date
             /\ Val(loc[i].out).url = entries[i].url
        /\ loc[i].path = "hit" =>
             \E source \in {EarlierEntry} \cup {entries[k] : k \in DOMAIN entries} :
                 /\ ExtractVideoIdFromUrl(source.url) = ExtractVideoIdFromUrl(entries[i].url)
                 /\ Val(loc[i].out).date = source.date
                 /\ Val(loc[i].out).url = source.url

\* an entry was served from a row that an entry of another date and another
\* URL form had stored
C29_Witness ==
    \E i \in Returned :
        /\ loc[i].path = "hit"
        /\ Val(loc[i].out).date # entries[i].date
        /\ Val(loc[i].out).url # entries[i].url
        /\ Val(loc[i].out).video_id = ExtractVideoIdFromUrl(entries[i].url)

\* the pages first..last of the call's feed one after the other; the page the
\* call asked for is the one the handler returned
RECURSIVE PagesConcatenated(_, _)
PagesConcatenated(first, last) ==
    IF first > last THEN <<>>
    ELSE (IF first = call.page THEN Val(ret).value.streams
          ELSE IF call.fn = "get_paginated_streams"
               THEN GetPaginatedStreams(call.feed, first, call.per_page).streams
               ELSE LegacyGetPaginatedStreams(call.feed, first, call.per_page).streams)
         \o PagesConcatenated(first + 1, last)

\* the entry a record was built from
EntryOf(rec) == [date |-> rec.date, url |-> rec.url]

\* ceil(n / per_page): the least number of pages of per_page that hold n
CeilDiv(n, per_page) == CHOOSE k \in 0..n : k * per_page >= n /\ (k = 0 \/ (k - 1) * per_page < n)

\* C30: pagination without enrichment of a feed with n entries and
\* per_page >= 1: total_pages is ceil(n / per_page), a page holds at most
\* per_page records, the pages 1..total_pages one after the other are the
\* entries of the feed, each once and in feed order, and a page behind
\* total_pages is empty while total_streams stays n.
C30_PagesPartitionFeed ==
    (/\ ~IsNone(ret)
     /\ call.fn \in {"get_paginated_streams", "legacy.get_paginated_streams"}) =>
        LET response == Val(ret).value
            n == Len(call.feed)
            whole == PagesConcatenated(1, response.total_pages) IN
          /\ response.total_pages = CeilDiv(n, call.per_page)
          /\ response.total_streams = n
          /\ Len(response.streams) <= call.per_page
          /\ [k \in 1..Len(whole) |-> EntryOf(whole[k])] = call.feed
          /\ (call.page > response.total_pages => response.streams = <<>>)

\* a short last page has been returned: the feed does not fill its last
\* page, and the page has fewer than per_page records but at least one
C30_Witness ==
    /\ ~IsNone(ret)
    /\ call.fn = "get_paginated_streams"
    /\ Len(call.feed) % call.per_page # 0
    /\ call.page = Val(ret).value.total_pages
    /\ call.page > 1
    /\ Len(Val(ret).value.streams) \in 1..(call.per_page - 1)

====
